---- MODULE Spec2Model ----
(***************************************************************************)
(* The TypeScript type parser of swc_ecma_parser (parser/typescript.rs).   *)
(*                                                                         *)
(* The parser is a recursive descent over a token buffer.  A parser value  *)
(* `w` holds the part of `Parser<I>` that `self.clone()` copies (cursor    *)
(* position, the half-consumed `<<` of cut_lshift, the context flags, the  *)
(* lexer token-context stack) and the part every clone shares (the         *)
(* diagnostics sink `errs`), plus a history `log` of probe events that the *)
(* properties read.  Each parsing routine is an operator from a parser     *)
(* value to a result [ok, some, w, v]: PResult<Option<T>> with the parser  *)
(* value after the call.                                                   *)
(***************************************************************************)
EXTENDS Integers, Sequences, FiniteSets, TLC

VARIABLES input, parser, errors, captured, log, last, phase

vars == <<input, parser, errors, captured, log, last, phase>>

(***************************************************************************)
(* Bounds of the model.                                                    *)
(***************************************************************************)
MaxLen == 3

(***************************************************************************)
(* Tokens.  k: the token kind (punctuation and words by their text),       *)
(* nl: a line break precedes the token, val/raw: value and source text of  *)
(* a numeric or bigint literal.                                            *)
(***************************************************************************)
T(k) == [k |-> k, nl |-> FALSE, val |-> 0, raw |-> k]

NL(k) == [k |-> k, nl |-> TRUE, val |-> 0, raw |-> k]

NumTok(n, raw) == [k |-> "num", nl |-> FALSE, val |-> n, raw |-> raw]

BigIntTok(n, raw) == [k |-> "bigint", nl |-> FALSE, val |-> n, raw |-> raw]

EofTok == [k |-> "EOF", nl |-> FALSE, val |-> 0, raw |-> ""]

\* Token::Word(Word::Ident(..)): words that are not reserved keywords.
IdentWords ==
    {"A", "B", "C", "D", "E", "F", "G", "K", "V", "a", "b", "c", "t", "rest", "Test", "test",
     "string", "number", "boolean", "any", "bigint_kw", "never", "object", "symbol",
     "unknown", "undefined", "intrinsic",
     "readonly", "keyof", "unique", "infer", "is", "asserts", "as", "type",
     "abstract", "declare", "global", "get", "set", "namespace", "module",
     "interface", "implements", "require", "out"}

\* Token::Word(Word::Keyword(..)) and the null/true/false words.
KeywordWords ==
    {"extends", "this", "in", "new", "typeof", "import", "void", "null", "true",
     "false", "const", "function", "class", "var", "let", "enum", "yield",
     "await", "break"}

IdentName == IdentWords \cup KeywordWords

\* IdentRef: a word usable as a binding reference.
IdentRef == IdentWords \cup {"yield", "await"}

KeywordTypeNames ==
    {"void", "null", "any", "boolean", "bigint_kw", "never", "number", "object",
     "string", "symbol", "unknown", "undefined", "intrinsic"}

(***************************************************************************)
(* Context flags of the parser used by the type parser.                    *)
(***************************************************************************)
InType == "InType"

DisallowConditionalTypes == "DisallowConditionalTypes"

IgnoreError == "IgnoreError"

InDeclare == "InDeclare"

TopLevel == "TopLevel"

(***************************************************************************)
(* Cursor primitives of the token buffer (self.input).                     *)
(***************************************************************************)
TokAt(i) == IF i >= 1 /\ i <= Len(input) THEN input[i] ELSE EofTok

cur(w) == IF w.st THEN "," ELSE IF w.cut THEN "<" ELSE TokAt(w.pos).k

is(w, k) == cur(w) = k

is_one_of(w, ks) == cur(w) \in ks

peeked(w) == IF w.st THEN TokAt(w.pos).k ELSE TokAt(w.pos + 1).k

peeked_is(w, k) == peeked(w) = k

had_line_break_before_cur(w) == (~w.st) /\ (~w.cut) /\ TokAt(w.pos).nl

\* The capturing token source: the token at `at` is handed to the parser.
\* Tokens recorded at or after that place come from a scan that was given
\* up; they are taken out before the token is recorded.
RECURSIVE capture(_, _)
capture(cap, at) ==
    IF cap # <<>> /\ cap[Len(cap)] >= at
    THEN capture(SubSeq(cap, 1, Len(cap) - 1), at)
    ELSE Append(cap, at)

\* bump!(p): the buffer moves to the next token, which it takes from the
\* token source unless the input has ended or a stored token is current.
bump(w) ==
    IF w.st THEN [w EXCEPT !.st = FALSE]
    ELSE [w EXCEPT !.pos = IF @ > Len(input) THEN @ ELSE @ + 1, !.cut = FALSE,
                   !.cap = IF w.pos < Len(input) THEN capture(@, w.pos + 1) ELSE @]

\* store!(p, ','): a comma is put in front of the current token, which
\* becomes the token after it.
store(w) == [w EXCEPT !.st = TRUE]

\* self.input.cut_lshift(): the current `<<` becomes its second `<`.
cut_lshift(w) == [w EXCEPT !.cut = TRUE]

(***************************************************************************)
(* Results.                                                                *)
(***************************************************************************)
\* `let x = value;` for a value an operation of the parser returns: the value
\* is computed once and the rest of the routine runs with x bound to it.
Let(value, Rest(_)) == CHOOSE r \in {Rest(x) : x \in {value}} : TRUE

NoneV == [kind |-> "None"]

BoolV(b) == [kind |-> "Bool", b |-> b]

Ok(w, v) == [ok |-> TRUE, some |-> TRUE, w |-> w, v |-> v]

OkNone(w) == [ok |-> TRUE, some |-> FALSE, w |-> w, v |-> NoneV]

Err(w, e) == [ok |-> FALSE, some |-> FALSE, w |-> w, v |-> [kind |-> "Error", err |-> e]]

\* self.emit_err(span, err): recorded in the diagnostics sink unless the
\* IgnoreError flag is set.  The history variable keeps every call, recorded
\* or not.
emit_err(w, e) ==
    LET said == [w EXCEPT !.log = Append(@, [at |-> "emit_err", err |-> e,
                                             recorded |-> ~(IgnoreError \in w.ctx)])]
    IN IF IgnoreError \in w.ctx THEN said ELSE [said EXCEPT !.errs = Append(@, e)]

\* Probe: the history variable records the flags and the token-context
\* stack the parser holds at a program point.
probe(w, at) ==
    [w EXCEPT !.log = Append(@, [at |-> at, pos |-> w.pos, ctx |-> w.ctx, tc |-> w.tc])]

\* with_ctx(ctx).parse_with(body): the guard puts the flags found at entry
\* back when it is dropped, on every exit path.
restore_ctx(orig, r) == [r EXCEPT !.w.ctx = orig.ctx]

\* expect!(p, tok)
expect(w, k) == IF is(w, k) THEN Ok(bump(w), NoneV) ELSE Err(w, "Expected")

\* expect!(p, ';'): a semicolon, or none needed at the end of input, before
\* `}` and after a line break.
expect_semi(w) ==
    IF is(w, ";") THEN Ok(bump(w), NoneV)
    ELSE IF cur(w) = "EOF" \/ is(w, "}") \/ had_line_break_before_cur(w) THEN Ok(w, NoneV)
    ELSE Err(w, "Expected")


\* parse_ident_name: any word token is taken as a name.
parse_ident_name(w) ==
    IF cur(w) \in IdentName
    THEN Ok(bump(w), [kind |-> "Ident", sym |-> cur(w), lo |-> w.pos, hi |-> w.pos + 1,
                      optional |-> FALSE])
    ELSE Err(w, "ExpectedIdent")

\* parse_ident(false, false): a binding reference, reserved words refused.
parse_ident(w) ==
    IF cur(w) \in IdentRef
    THEN Ok(bump(w), [kind |-> "Ident", sym |-> cur(w), lo |-> w.pos, hi |-> w.pos + 1,
                      optional |-> FALSE])
    ELSE Err(w, "ExpectedIdent")

\* parse_lit for the literal tokens of a type.
parse_lit(w) ==
    LET t == TokAt(w.pos) IN
    CASE cur(w) = "num" ->
           Ok(bump(w), [kind |-> "Num", value |-> t.val, raw |-> t.raw, lo |-> w.pos, hi |-> w.pos + 1])
      [] cur(w) = "bigint" ->
           Ok(bump(w), [kind |-> "BigInt", value |-> t.val, raw |-> t.raw, lo |-> w.pos, hi |-> w.pos + 1])
      [] cur(w) = "str" ->
           Ok(bump(w), [kind |-> "Str", value |-> 0, raw |-> t.raw, lo |-> w.pos, hi |-> w.pos + 1])
      [] cur(w) \in {"true", "false"} ->
           Ok(bump(w), [kind |-> "Bool", value |-> 0, raw |-> cur(w), lo |-> w.pos, hi |-> w.pos + 1])
      [] OTHER -> Err(w, "ExpectedLit")

\* parse_unary_expr (parser/expr/ops.rs) on a prefix operator or a literal:
\* the operator stays a node of its own over its operand.
RECURSIVE parse_unary_expr(_)
parse_unary_expr(w) ==
    IF cur(w) \in {"-", "+", "!", "~"}
    THEN LET arg == parse_unary_expr(bump(w))
         IN IF ~arg.ok THEN arg
            ELSE Ok(arg.w, [kind |-> "UnaryExpr", lo |-> w.pos, hi |-> arg.w.pos,
                            op |-> cur(w), arg |-> arg.v])
    ELSE LET l == parse_lit(w)
         IN IF ~l.ok THEN l ELSE Ok(l.w, [kind |-> "Lit", lit |-> l.v])

(***************************************************************************)
(* The routines of typescript.rs.  They are mutually recursive.            *)
(***************************************************************************)
RECURSIVE RunOp(_, _)
RECURSIVE parse_ts_decl(_, _, _, _)
RECURSIVE try_parse_ts_declare(_, _)
RECURSIVE parse_ts_type_alias_decl(_, _)
RECURSIVE parse_ts_enum_member(_)
RECURSIVE parse_ts_heritage_clause_element(_)
RECURSIVE try_parse_ts(_, _)
RECURSIVE try_parse_ts_bool(_, _)
RECURSIVE ts_look_ahead(_, _)
RECURSIVE parse_ts_modifier(_, _)
RECURSIVE parse_ts_type(_)
RECURSIVE parse_ts_non_conditional_type(_)
RECURSIVE is_ts_start_of_fn_type(_)
RECURSIVE parse_ts_union_type_or_higher(_)
RECURSIVE parse_ts_intersection_type_or_higher(_)
RECURSIVE parse_ts_union_or_intersection_type(_, _)
RECURSIVE union_rest(_, _, _)
RECURSIVE parse_ts_type_operator_or_higher(_)
RECURSIVE parse_ts_type_operator(_, _)
RECURSIVE parse_ts_infer_type(_)
RECURSIVE parse_ts_array_type_or_higher(_, _)
RECURSIVE array_rest(_, _, _)
RECURSIVE parse_ts_non_array_type(_)
RECURSIVE parse_ts_type_ref(_)
RECURSIVE parse_ts_type_args(_)
RECURSIVE parse_ts_type_ann(_, _, _)
RECURSIVE parse_ts_this_type_predicate(_, _, _, _)
RECURSIVE parse_ts_parenthesized_type(_)
RECURSIVE parse_ts_tuple_type(_)
RECURSIVE parse_ts_tuple_element_type(_)
RECURSIVE parse_ts_mapped_type(_)
RECURSIVE parse_ts_type_lit(_)
RECURSIVE parse_ts_fn_or_constructor_type(_, _)
RECURSIVE parse_ts_delimited_list_inner(_, _, _, _)
RECURSIVE parse_ts_list(_, _, _, _)
RECURSIVE eat_then_parse_ts_type(_, _)
RECURSIVE expect_then_parse_ts_type(_, _)

\* What a discarded clone leaves behind: the diagnostics sink is shared by
\* every clone of the parser, and so are the buffer of captured tokens and
\* the history variable.
shared(w, cw) == [w EXCEPT !.errs = cw.errs, !.log = cw.log, !.cap = cw.cap]

\* The cursor, flags and token contexts of a parser value.
StateOf(w) == [pos |-> w.pos, cut |-> w.cut, st |-> w.st, ctx |-> w.ctx, tc |-> w.tc]

\* History of one speculative attempt: the parser the attempt was made on
\* (w), what its op returned (res) and what the caller gets back (r).
\* `ret` is the shape of what the caller gets back, `err` the hard failure
\* of the op, if any.
\* `start` is the place in the history of the probe taken on the fresh clone.
attempted(how, op, w, res, r) ==
    [r EXCEPT !.w.log =
        Append(@, [at |-> "attempt_end", how |-> how, op |-> op,
                   outcome |-> IF ~res.ok THEN "failure"
                               ELSE IF ~res.some THEN "no_match"
                               ELSE IF how = "try_parse_ts_bool" /\ ~res.v.b THEN "no_match"
                               ELSE IF how = "ts_look_ahead" THEN "peek"
                               ELSE "commit",
                   start |-> Len(w.log) + 1,
                   err |-> IF res.ok THEN "" ELSE res.v.err,
                   ret |-> IF ~r.ok THEN "failure"
                           ELSE IF ~r.some THEN "none"
                           ELSE IF how # "try_parse_ts" /\ ~r.v.b THEN "false"
                           ELSE "value",
                   from |-> StateOf(w), to |-> StateOf(r.w),
                   errs0 |-> Len(w.errs), errs1 |-> Len(r.w.errs)])]

\* try_parse_ts as it would be if the no-match and failure arms kept the
\* clone (`*self = cloned` hoisted out of the Ok(Some) arm).
try_parse_ts_keeping_clone(op, w) ==
    LET prev_ignore_error == IgnoreError \in w.ctx
        cloned == [w EXCEPT !.ctx = @ \cup {IgnoreError}]
    IN Let(RunOp(op, probe(cloned, "attempt")), LAMBDA res:
       attempted("try_parse_ts", op, w, res,
           IF res.ok /\ res.some
           THEN Ok([res.w EXCEPT !.ctx = IF prev_ignore_error
                                          THEN @ \cup {IgnoreError}
                                          ELSE @ \ {IgnoreError}],
                   res.v)
           ELSE OkNone([res.w EXCEPT !.ctx = IF prev_ignore_error
                                             THEN @ \cup {IgnoreError}
                                             ELSE @ \ {IgnoreError}])))

\* try_parse_ts as it would be if the clone ran without the IgnoreError
\* flag.
try_parse_ts_reporting(op, w) ==
    Let(RunOp(op, probe(w, "attempt")), LAMBDA res:
       attempted("try_parse_ts", op, w, res,
           IF res.ok /\ res.some
           THEN Ok(res.w, res.v)
           ELSE OkNone(shared(w, res.w))))

\* try_parse_ts as it would be if the failure of the op were handed on to
\* the caller (`op(&mut cloned)?`).
try_parse_ts_propagating(op, w) ==
    LET prev_ignore_error == IgnoreError \in w.ctx
        cloned == [w EXCEPT !.ctx = @ \cup {IgnoreError}]
    IN Let(RunOp(op, probe(cloned, "attempt")), LAMBDA res:
       attempted("try_parse_ts", op, w, res,
           IF ~res.ok
           THEN [res EXCEPT !.w = shared(w, res.w)]
           ELSE IF res.some
           THEN Ok([res.w EXCEPT !.ctx = IF prev_ignore_error
                                          THEN @ \cup {IgnoreError}
                                          ELSE @ \ {IgnoreError}],
                   res.v)
           ELSE OkNone(shared(w, res.w))))

\* try_parse_ts, lines 623-659.
try_parse_ts(op, w) ==
    LET prev_ignore_error == IgnoreError \in w.ctx
        cloned == [w EXCEPT !.ctx = @ \cup {IgnoreError}]
    IN Let(RunOp(op, probe(cloned, "attempt")), LAMBDA res:
       attempted("try_parse_ts", op, w, res,
           IF res.ok /\ res.some
           THEN Ok([res.w EXCEPT !.ctx = IF prev_ignore_error
                                          THEN @ \cup {IgnoreError}
                                          ELSE @ \ {IgnoreError}],
                   res.v)
           ELSE OkNone(shared(w, res.w))))

\* try_parse_ts_bool as it would be if a committed clone kept the flags it
\* ran with (no `ctx.set(Context::IgnoreError, prev_ignore_error)`).
try_parse_ts_bool_keeping_flag(op, w) ==
    LET cloned == [w EXCEPT !.ctx = @ \cup {IgnoreError}]
    IN Let(RunOp(op, probe(cloned, "attempt")), LAMBDA res:
       attempted("try_parse_ts_bool", op, w, res,
           IF res.ok /\ res.some /\ res.v.b
           THEN Ok(res.w, BoolV(TRUE))
           ELSE Ok(shared(w, res.w), BoolV(FALSE))))

\* try_parse_ts_bool, lines 571-593.
try_parse_ts_bool(op, w) ==
    LET prev_ignore_error == IgnoreError \in w.ctx
        cloned == [w EXCEPT !.ctx = @ \cup {IgnoreError}]
    IN Let(RunOp(op, probe(cloned, "attempt")), LAMBDA res:
       attempted("try_parse_ts_bool", op, w, res,
           IF res.ok /\ res.some /\ res.v.b
           THEN Ok([res.w EXCEPT !.ctx = IF prev_ignore_error
                                          THEN @ \cup {IgnoreError}
                                          ELSE @ \ {IgnoreError}],
                   BoolV(TRUE))
           ELSE Ok(shared(w, res.w), BoolV(FALSE))))

\* ts_look_ahead as it would be if the parser went on from where the clone
\* stopped.
ts_look_ahead_keeping_clone(op, w) ==
    LET cloned == [w EXCEPT !.ctx = @ \cup {IgnoreError}]
    IN Let(RunOp(op, probe(cloned, "attempt")), LAMBDA res:
       attempted("ts_look_ahead", op, w, res,
                 [res EXCEPT !.w = [res.w EXCEPT !.ctx = w.ctx]]))

\* ts_look_ahead as it would be if a hard failure of the op were answered
\* with false.
ts_look_ahead_failure_as_false(op, w) ==
    LET cloned == [w EXCEPT !.ctx = @ \cup {IgnoreError}]
    IN Let(RunOp(op, probe(cloned, "attempt")), LAMBDA res:
       attempted("ts_look_ahead", op, w, res,
                 IF res.ok THEN [res EXCEPT !.w = shared(w, res.w)]
                 ELSE Ok(shared(w, res.w), BoolV(FALSE))))

\* ts_look_ahead, lines 1221-1230: the op's own result, the clone dropped.
ts_look_ahead(op, w) ==
    LET cloned == [w EXCEPT !.ctx = @ \cup {IgnoreError}]
    IN Let(RunOp(op, probe(cloned, "attempt")), LAMBDA res:
       attempted("ts_look_ahead", op, w, res, [res EXCEPT !.w = shared(w, res.w)]))

\* ts_next_token_can_follow_modifier, lines 12-23.
ts_next_token_can_follow_modifier(w) ==
    LET p == bump(w) IN
    Ok(p, BoolV(~had_line_break_before_cur(p)
                /\ (cur(p) \in {"[", "{", "*", "...", "#", "str", "num", "bigint"}
                    \/ cur(p) \in IdentName)))

\* parse_ts_modifier, lines 28-59 (stop_on_start_of_class_static_blocks is
\* false at every call of the type parser).  v.sym is the modifier found.
parse_ts_modifier(allowed, w) ==
    IF cur(w) = "EOF" THEN Err(w, "Eof")
    ELSE IF ~(cur(w) \in IdentWords \cup {"in", "const"}) THEN OkNone(w)
    ELSE IF cur(w) \in allowed
         THEN Let(try_parse_ts_bool("ts_next_token_can_follow_modifier", w), LAMBDA r:
              IF r.v.b THEN Ok(r.w, [kind |-> "Modifier", sym |-> cur(w)])
              ELSE OkNone(r.w))
         ELSE OkNone(w)

\* eat_any_ts_modifier (parser/class_and_fn.rs): an accessibility or readonly
\* modifier word followed by a name, `{` or `[` is skipped by
\* parse_ts_modifier, whose result is ignored.
eat_any_ts_modifier(w) ==
    IF cur(w) = "EOF" THEN Err(w, "Eof")
    ELSE LET has_modifier == cur(w) \in {"public", "protected", "private", "readonly"}
                             /\ (peeked(w) \in IdentName \/ peeked(w) \in {"{", "["})
         IN IF has_modifier
            THEN Ok(parse_ts_modifier({"public", "protected", "private", "readonly"}, w).w,
                    BoolV(TRUE))
            ELSE Ok(w, BoolV(FALSE))

\* parse_ts_entity_name, lines 185-215.
RECURSIVE entity_rest(_, _, _, _)
entity_rest(w, start, entity, allow_reserved_words) ==
    IF ~is(w, ".") THEN Ok(w, entity)
    ELSE LET p == bump(w) IN
         IF ~is(p, "#") /\ ~(cur(p) \in IdentName)
         THEN Ok(emit_err(p, "TS1003"), entity)
         ELSE LET r == IF allow_reserved_words THEN parse_ident_name(p) ELSE parse_ident(p) IN
              IF ~r.ok THEN r
              ELSE entity_rest(r.w, start,
                               [kind |-> "TsQualifiedName", lo |-> start, hi |-> r.w.pos,
                                left |-> entity, right |-> r.v],
                               allow_reserved_words)

parse_ts_entity_name(w, allow_reserved_words) ==
    LET start == w.pos
        init == parse_ident_name(w)
    IN IF ~init.ok THEN init
       ELSE LET p == IF init.v.sym = "void" THEN emit_err(init.w, "TS1005") ELSE init.w
            IN entity_rest(p, start, init.v, allow_reserved_words)

\* parse_ts_type_ref, lines 218-246.
parse_ts_type_ref(w) ==
    LET start == w.pos
    IN Let(eat_any_ts_modifier(w), LAMBDA m:
    IF ~m.ok THEN m ELSE
       Let(parse_ts_entity_name(m.w, TRUE), LAMBDA n:
       IF ~n.ok THEN n ELSE
       Let(IF ~had_line_break_before_cur(n.w) /\ is(n.w, "<")
                THEN restore_ctx(n.w, parse_ts_type_args(n.w))
                ELSE OkNone(n.w), LAMBDA a:
       IF ~a.ok THEN a ELSE
          LET p == IF m.v.b THEN emit_err(a.w, "TS2369") ELSE a.w IN
          Ok(p, [kind |-> "TsTypeRef", lo |-> start, hi |-> p.pos,
                 type_name |-> n.v, type_params |-> a.v]))))

\* parse_ts_this_type_node, lines 277-285.
parse_ts_this_type_node(w) ==
    IF is(w, "this")
    THEN Ok(bump(w), [kind |-> "TsThisType", lo |-> w.pos, hi |-> w.pos + 1])
    ELSE Err(w, "Expected")

\* parse_ts_this_type_predicate, lines 249-274.
parse_ts_this_type_predicate(w, start, has_asserts_keyword, lhs) ==
    Let(IF is(w, "is")
             THEN parse_ts_type_ann(bump(w), FALSE, w.pos + 1)
             ELSE OkNone(w), LAMBDA t:
    IF ~t.ok THEN t
       ELSE Ok(t.w, [kind |-> "TsTypePredicate", lo |-> start, hi |-> t.w.pos,
                     asserts |-> has_asserts_keyword, param_name |-> lhs,
                     type_ann |-> t.v]))

\* parse_ts_type_ann, lines 662-685: in_type().parse_with(..).
parse_ts_type_ann(w, eat_colon, start) ==
    LET p0 == [w EXCEPT !.ctx = @ \cup {InType}]
        p1 == IF eat_colon THEN bump(p0) ELSE p0
    IN Let(RunOp("parse_ts_type", p1), LAMBDA t:
    restore_ctx(w,
         IF ~t.ok THEN t
         ELSE Ok(t.w, [kind |-> "TsTypeAnn", lo |-> start, hi |-> t.w.pos, type_ann |-> t.v])))

\* eat_then_parse_ts_type, lines 688-703.
eat_then_parse_ts_type(w, token_to_eat) ==
    LET p0 == [w EXCEPT !.ctx = @ \cup {InType}] IN
    restore_ctx(w, IF ~is(p0, token_to_eat) THEN OkNone(p0) ELSE RunOp("parse_ts_type", bump(p0)))

\* expect_then_parse_ts_type, lines 706-728.
expect_then_parse_ts_type(w, token) ==
    LET p0 == [w EXCEPT !.ctx = @ \cup {InType}] IN
    restore_ctx(w, IF ~is(p0, token) THEN Err(p0, "Unexpected") ELSE RunOp("parse_ts_type", bump(p0)))

\* parse_type as it would be without in_type().
parse_type_without_in_type(w) == RunOp("parse_ts_type", w)

\* parse_type, lines 933-937.
parse_type(w) == restore_ctx(w, RunOp("parse_ts_type", [w EXCEPT !.ctx = @ \cup {InType}]))

\* parse_ts_type as it would be if the two branches of a conditional were
\* parsed as non-conditional types.
parse_ts_type_flat_branches(w) ==
    LET w0 == probe(w, "parse_ts_type")
        start == w0.pos
        p == probe([w0 EXCEPT !.ctx = @ \ {DisallowConditionalTypes}], "parse_ts_type_body")
    IN Let(RunOp("parse_ts_non_conditional_type", p), LAMBDA ty:
    restore_ctx(w,
         IF ~ty.ok THEN ty
         ELSE IF had_line_break_before_cur(ty.w) \/ ~is(ty.w, "extends") THEN ty
         ELSE LET p1 == bump(ty.w)
              IN Let(restore_ctx(p1,
                           RunOp("parse_ts_non_conditional_type",
                             probe([p1 EXCEPT !.ctx = @ \cup {DisallowConditionalTypes}],
                                   "extends_type"))), LAMBDA ext:
              IF ~ext.ok THEN ext ELSE
                 LET q == expect(ext.w, "?") IN
                 IF ~q.ok THEN q ELSE
                 Let(RunOp("parse_ts_non_conditional_type", probe(q.w, "true_type")), LAMBDA tt:
                 IF ~tt.ok THEN tt ELSE
                 LET c == expect(tt.w, ":") IN
                 IF ~c.ok THEN c ELSE
                 Let(RunOp("parse_ts_non_conditional_type", probe(c.w, "false_type")), LAMBDA ft:
                 IF ~ft.ok THEN ft ELSE
                 Ok(ft.w, [kind |-> "TsConditionalType", lo |-> start, hi |-> ft.w.pos,
                           check_type |-> ty.v, extends_type |-> ext.v,
                           true_type |-> tt.v, false_type |-> ft.v]))))))

\* parse_ts_type, lines 942-981.
parse_ts_type(w) ==
    LET w0 == probe(w, "parse_ts_type")
        start == w0.pos
        p == probe([w0 EXCEPT !.ctx = @ \ {DisallowConditionalTypes}], "parse_ts_type_body")
    IN Let(RunOp("parse_ts_non_conditional_type", p), LAMBDA ty:
    restore_ctx(w,
         IF ~ty.ok THEN ty
         ELSE IF had_line_break_before_cur(ty.w) \/ ~is(ty.w, "extends") THEN ty
         ELSE LET p1 == bump(ty.w)
              IN Let(restore_ctx(p1,
                           RunOp("parse_ts_non_conditional_type",
                             probe([p1 EXCEPT !.ctx = @ \cup {DisallowConditionalTypes}],
                                   "extends_type"))), LAMBDA ext:
              IF ~ext.ok THEN ext ELSE
                 LET q == expect(ext.w, "?") IN
                 IF ~q.ok THEN q ELSE
                 Let(RunOp("parse_ts_type", probe(q.w, "true_type")), LAMBDA tt:
                 IF ~tt.ok THEN tt ELSE
                 LET c == expect(tt.w, ":") IN
                 IF ~c.ok THEN c ELSE
                 Let(RunOp("parse_ts_type", probe(c.w, "false_type")), LAMBDA ft:
                 IF ~ft.ok THEN ft ELSE
                 Ok(ft.w, [kind |-> "TsConditionalType", lo |-> start, hi |-> ft.w.pos,
                           check_type |-> ty.v, extends_type |-> ext.v,
                           true_type |-> tt.v, false_type |-> ft.v]))))))

\* parse_ts_non_conditional_type, lines 984-1004.
parse_ts_non_conditional_type(w) ==
    Let(is_ts_start_of_fn_type(w), LAMBDA f:
    IF ~f.ok THEN f
    ELSE IF f.v.b THEN parse_ts_fn_or_constructor_type(f.w, TRUE)
    ELSE IF (is(f.w, "abstract") /\ peeked_is(f.w, "new")) \/ is(f.w, "new")
         THEN parse_ts_fn_or_constructor_type(f.w, FALSE)
         ELSE parse_ts_union_type_or_higher(f.w))

\* is_ts_start_of_fn_type, lines 1006-1014.
is_ts_start_of_fn_type(w) ==
    IF is(w, "<") THEN Ok(w, BoolV(TRUE))
    ELSE IF ~is(w, "(") THEN Ok(w, BoolV(FALSE))
    ELSE ts_look_ahead("is_ts_unambiguously_start_of_fn_type", w)

\* parse_ts_intersection_type_or_higher, lines 2701-2711.
parse_ts_intersection_type_or_higher(w) ==
    parse_ts_union_or_intersection_type(w, "Intersection")

\* parse_ts_union_type_or_higher, lines 2714-2723.
parse_ts_union_type_or_higher(w) ==
    parse_ts_union_or_intersection_type(w, "Union")

\* The operator token and the constituent parser of each kind.
operator_of(kind) == IF kind = "Union" THEN "|" ELSE "&"

parse_constituent_type(w, kind) ==
    IF kind = "Union" THEN parse_ts_intersection_type_or_higher(w)
    ELSE RunOp("parse_ts_type_operator_or_higher", w)

\* The `while self.input.eat(operator)` loop, lines 2749-2753.
union_rest(w, kind, types) ==
    IF ~is(w, operator_of(kind)) THEN Ok(w, [kind |-> "Types", types |-> types])
    ELSE Let(parse_constituent_type(bump(w), kind), LAMBDA r:
         IF ~r.ok THEN r ELSE union_rest(r.w, kind, Append(types, r.v)))

\* parse_ts_union_or_intersection_type as it would be if it wrapped a single
\* constituent in a node too.
parse_ts_union_or_intersection_type_wrapping(w, kind) ==
    LET start == w.pos
        p == IF is(w, operator_of(kind)) THEN bump(w) ELSE w
    IN Let(parse_constituent_type(p, kind), LAMBDA ty:
    IF ~ty.ok THEN ty
       ELSE Let(union_rest(ty.w, kind, <<ty.v>>), LAMBDA r:
            IF ~r.ok THEN r
            ELSE Ok(r.w, [kind |-> IF kind = "Union" THEN "TsUnionType" ELSE "TsIntersectionType",
                          lo |-> start, hi |-> r.w.pos, types |-> r.v.types])))

\* parse_ts_union_or_intersection_type, lines 2726-2770.
parse_ts_union_or_intersection_type(w, kind) ==
    LET start == w.pos
        p == IF is(w, operator_of(kind)) THEN bump(w) ELSE w
    IN Let(parse_constituent_type(p, kind), LAMBDA ty:
    IF ~ty.ok THEN ty
       ELSE IF is(ty.w, operator_of(kind))
       THEN Let(union_rest(ty.w, kind, <<ty.v>>), LAMBDA r:
            IF ~r.ok THEN r
            ELSE Ok(r.w, [kind |-> IF kind = "Union" THEN "TsUnionType" ELSE "TsIntersectionType",
                          lo |-> start, hi |-> r.w.pos, types |-> r.v.types]))
       ELSE ty)

\* parse_ts_type_operator as it would be if the operand were parsed by the
\* array production, the next-lower one.
parse_ts_type_operator_on_lower(w, op) ==
    LET start == w.pos
        e == expect(w, op)
    IN IF ~e.ok THEN e ELSE
       Let(parse_ts_array_type_or_higher(e.w, FALSE), LAMBDA t:
       IF ~t.ok THEN t
       ELSE Ok(t.w, [kind |-> "TsTypeOperator", lo |-> start, hi |-> t.w.pos,
                     op |-> op, type_ann |-> t.v]))

\* parse_ts_type_operator, lines 2243-2259.
parse_ts_type_operator(w, op) ==
    LET start == w.pos
        e == expect(w, op)
    IN IF ~e.ok THEN e ELSE
       Let(parse_ts_type_operator_or_higher(e.w), LAMBDA t:
       IF ~t.ok THEN t
       ELSE Ok(t.w, [kind |-> "TsTypeOperator", lo |-> start, hi |-> t.w.pos,
                     op |-> op, type_ann |-> t.v]))

\* parse_ts_infer_type, lines 2262-2290.
parse_ts_infer_type(w) ==
    LET start == w.pos
        e == expect(w, "infer")
    IN IF ~e.ok THEN e ELSE
       LET n == parse_ident_name(e.w) IN
       IF ~n.ok THEN n ELSE
       Let(try_parse_ts("infer_constraint", n.w), LAMBDA c:
       Ok(c.w, [kind |-> "TsInferType", lo |-> start, hi |-> c.w.pos,
                type_param |-> [kind |-> "TsTypeParam", lo |-> n.v.lo, hi |-> n.v.hi,
                                name |-> n.v, constraint |-> c.v]]))

\* The place a constraint that parsed ends at, with the flags held there,
\* goes to the history variable.
constraint_end(constraint) ==
    IF constraint.ok THEN [constraint EXCEPT !.w = probe(@, "constraint_end")] ELSE constraint

\* The closure of parse_ts_infer_type as it would be if the constraint were
\* kept whatever follows it.
infer_constraint_op_keeping(p) ==
    LET e == expect(p, "extends") IN
    IF ~e.ok THEN e ELSE
    Let(constraint_end(RunOp("parse_ts_non_conditional_type", e.w)), LAMBDA constraint:
    constraint)

\* The closure of parse_ts_infer_type, lines 2268-2276.
infer_constraint_op(p) ==
    LET e == expect(p, "extends") IN
    IF ~e.ok THEN e ELSE
    Let(constraint_end(RunOp("parse_ts_non_conditional_type", e.w)), LAMBDA constraint:
    IF DisallowConditionalTypes \in constraint.w.ctx \/ ~is(constraint.w, "?")
    THEN constraint
    ELSE OkNone(constraint.w))

\* parse_ts_type_operator_or_higher as it would be if `readonly` were left
\* to the modifier of the last branch.
parse_ts_type_operator_or_higher_readonly_modifier(w) ==
    IF cur(w) \in {"keyof", "unique"}
    THEN parse_ts_type_operator(w, cur(w))
    ELSE IF is(w, "infer") THEN parse_ts_infer_type(w)
    ELSE Let(parse_ts_modifier({"readonly"}, w), LAMBDA m:
         IF ~m.ok THEN m ELSE parse_ts_array_type_or_higher(m.w, m.some))

\* parse_ts_type_operator_or_higher, lines 2293-2323.
parse_ts_type_operator_or_higher(w) ==
    IF cur(w) \in {"keyof", "unique", "readonly"}
    THEN parse_ts_type_operator(w, cur(w))
    ELSE IF is(w, "infer") THEN parse_ts_infer_type(w)
    ELSE Let(parse_ts_modifier({"readonly"}, w), LAMBDA m:
         IF ~m.ok THEN m ELSE parse_ts_array_type_or_higher(m.w, m.some))

\* The `while` loop of parse_ts_array_type_or_higher, lines 2221-2237.
array_rest(w, readonly, ty) ==
    IF had_line_break_before_cur(w) \/ ~is(w, "[") THEN Ok(w, ty)
    ELSE LET p == bump(w) IN
         IF is(p, "]")
         THEN array_rest(bump(p), readonly,
                         [kind |-> "TsArrayType", lo |-> ty.lo, hi |-> p.pos + 1,
                          elem_type |-> ty])
         ELSE Let(RunOp("parse_ts_type", p), LAMBDA i:
              IF ~i.ok THEN i ELSE
              LET e == expect(i.w, "]") IN
              IF ~e.ok THEN e
              ELSE array_rest(e.w, readonly,
                              [kind |-> "TsIndexedAccessType", lo |-> ty.lo, hi |-> e.w.pos,
                               readonly |-> readonly, obj_type |-> ty, index_type |-> i.v]))

\* parse_ts_array_type_or_higher, lines 2215-2240.
parse_ts_array_type_or_higher(w, readonly) ==
    Let(RunOp("parse_ts_non_array_type", w), LAMBDA ty:
    IF ~ty.ok THEN ty ELSE array_rest(ty.w, readonly, ty.v))

\* parse_ts_parenthesized_type, lines 1811-1823.
parse_ts_parenthesized_type(w) ==
    LET start == w.pos
        e == expect(w, "(")
    IN IF ~e.ok THEN e ELSE
       Let(RunOp("parse_ts_type", e.w), LAMBDA t:
       IF ~t.ok THEN t ELSE
       LET c == expect(t.w, ")") IN
       IF ~c.ok THEN c
       ELSE Ok(c.w, [kind |-> "TsParenthesizedType", lo |-> start, hi |-> c.w.pos,
                     type_ann |-> t.v]))


\* parse_ts_lit_type_node, lines 1870-1893 (template literal types are
\* outside the token alphabet of the model).
parse_ts_lit_type_node(w) ==
    LET start == w.pos
        l == parse_lit(w)
    IN IF ~l.ok THEN l
       ELSE Ok(l.w, [kind |-> "TsLitType", lo |-> start, hi |-> l.w.pos, lit |-> l.v])

\* The `-` arm as it would be if it wrapped the literal in a unary minus
\* instead of folding the sign into it.
parse_ts_negative_lit_wrapping(w) ==
    LET start == w.pos
        p == bump(w)
    IN IF cur(p) = "EOF" THEN Err(p, "Eof")
       ELSE IF ~(cur(p) \in {"num", "bigint"}) THEN Err(p, "Unexpected")
       ELSE LET l == parse_lit(p)
            IN Ok(l.w, [kind |-> "UnaryExpr", lo |-> start, hi |-> l.w.pos, op |-> "-",
                        arg |-> [kind |-> "Lit", lit |-> l.v]])

\* The `-` arm of parse_ts_non_array_type, lines 2110-2164.  A literal
\* without source text gets the formatted value as its text.
parse_ts_negative_lit(w) ==
    LET start == w.pos
        p == bump(w)
    IN IF cur(p) = "EOF" THEN Err(p, "Eof")
       ELSE IF ~(cur(p) \in {"num", "bigint"}) THEN Err(p, "Unexpected")
       ELSE LET l == parse_lit(p)
                new_raw == IF l.v.raw = "" THEN "-" \o ToString(l.v.value)
                           ELSE "-" \o l.v.raw
            IN Ok(l.w, [kind |-> "TsLitType", lo |-> start, hi |-> l.w.pos,
                        lit |-> [l.v EXCEPT !.value = 0 - @, !.raw = new_raw]])

\* parse_ts_type_query, lines 373-402 (the `typeof import(..)` form is
\* outside the token alphabet of the model).
parse_ts_type_query(w) ==
    LET start == w.pos
        e == expect(w, "typeof")
    IN IF ~e.ok THEN e ELSE
       Let(parse_ts_entity_name(e.w, TRUE), LAMBDA n:
       IF ~n.ok THEN n ELSE
       Let(IF ~had_line_break_before_cur(n.w) /\ is(n.w, "<")
                THEN restore_ctx(n.w, parse_ts_type_args(n.w))
                ELSE OkNone(n.w), LAMBDA a:
       IF ~a.ok THEN a
          ELSE Ok(a.w, [kind |-> "TsTypeQuery", lo |-> start, hi |-> a.w.pos,
                        expr_name |-> n.v, type_args |-> a.v])))

\* parse_ts_non_array_type, lines 2029-2212.
parse_ts_non_array_type(w) ==
    LET start == w.pos IN
    CASE cur(w) = "EOF" -> Err(w, "Eof")
      [] cur(w) \in IdentWords \cup {"void", "yield", "null", "await", "break"} ->
           IF is(w, "asserts") /\ peeked_is(w, "this")
           THEN LET t == parse_ts_this_type_node(bump(w)) IN
                IF ~t.ok THEN t ELSE parse_ts_this_type_predicate(t.w, start, TRUE, t.v)
           ELSE IF cur(w) \in KeywordTypeNames /\ ~peeked_is(w, ".")
                THEN Ok(bump(w), [kind |-> "TsKeywordType", lo |-> start, hi |-> start + 1,
                                  kw |-> cur(w)])
                ELSE parse_ts_type_ref(w)
      [] cur(w) \in {"bigint", "str", "num", "true", "false"} -> parse_ts_lit_type_node(w)
      [] cur(w) = "-" -> parse_ts_negative_lit(w)
      [] cur(w) = "this" ->
           LET t == parse_ts_this_type_node(w) IN
           IF ~t.ok THEN t
           ELSE IF ~had_line_break_before_cur(t.w) /\ is(t.w, "is")
                THEN parse_ts_this_type_predicate(t.w, start, FALSE, t.v)
                ELSE t
      [] cur(w) = "typeof" -> parse_ts_type_query(w)
      [] cur(w) = "{" ->
           Let(ts_look_ahead("is_ts_start_of_mapped_type", w), LAMBDA m:
           IF ~m.ok THEN m
           ELSE IF m.v.b THEN RunOp("parse_ts_mapped_type", m.w)
           ELSE parse_ts_type_lit(m.w))
      [] cur(w) = "[" -> RunOp("parse_ts_tuple_type", w)
      [] cur(w) = "(" -> parse_ts_parenthesized_type(w)
      [] OTHER -> Err(w, "Unexpected")

(***************************************************************************)
(* Lists.  kind is the ParsingContext, elem names the element parser.      *)
(***************************************************************************)
\* is_ts_list_terminator, lines 62-73.
is_ts_list_terminator(w, kind) ==
    CASE kind \in {"EnumMembers", "TypeMembers"} -> is(w, "}")
      [] kind = "HeritageClauseElement" ->
           is(w, "{") \/ is(w, "implements") \/ is(w, "extends")
      [] kind = "TupleElementTypes" -> is(w, "]")
      [] kind = "TypeParametersOrArguments" -> is(w, ">")

\* A turn of a list loop whose element parsed: the history variable records
\* where the turn started (head) and where its element ended.
turned(w, loop, kind, head) ==
    [w EXCEPT !.log = Append(@, [at |-> "list_turn", loop |-> loop, kind |-> kind,
                                 head |-> head.pos, head_st |-> head.st,
                                 pos |-> w.pos, st |-> w.st])]

\* parse_ts_list, lines 76-89.
parse_ts_list(w, kind, elem, buf) ==
    IF is_ts_list_terminator(w, kind) THEN Ok(w, [kind |-> "List", items |-> buf])
    ELSE Let(RunOp(elem, w), LAMBDA r:
         IF ~r.ok THEN r
         ELSE parse_ts_list(turned(r.w, "parse_ts_list", kind, w), kind, elem,
                            Append(buf, r.v)))

\* Probe of a delimited list: the history variable records the head of
\* each turn of the loop ("list_step") and the place after each element
\* ("list_element"), with the kind of the list and the current token.
list_probe(w, at, kind) ==
    [w EXCEPT !.log = Append(@, [at |-> at, kind |-> kind, pos |-> w.pos, st |-> w.st,
                                 tok |-> cur(w)])]

\* parse_ts_delimited_list_inner as it would be if a missing comma were
\* forgiven for every kind of list.
parse_ts_delimited_list_inner_forgiving(w, kind, elem, buf) ==
    Let(list_probe(w, "list_step", kind), LAMBDA w0:
    IF is_ts_list_terminator(w0, kind) THEN Ok(w0, [kind |-> "List", items |-> buf])
    ELSE Let(RunOp(elem, w0), LAMBDA r:
         IF ~r.ok THEN r ELSE
         Let(list_probe(r.w, "list_element", kind), LAMBDA q:
         IF is(q, ",")
         THEN parse_ts_delimited_list_inner(bump(q), kind, elem, Append(buf, r.v))
         ELSE IF is_ts_list_terminator(q, kind)
         THEN Ok(q, [kind |-> "List", items |-> Append(buf, r.v)])
         ELSE parse_ts_delimited_list_inner(emit_err(q, "ExpectedComma"), kind, elem,
                                            Append(buf, r.v)))))

\* parse_ts_delimited_list_inner as it would be if each turn parsed an
\* element before any test of the terminator.
parse_ts_delimited_list_inner_element_first(w, kind, elem, buf) ==
    Let(list_probe(w, "list_step", kind), LAMBDA w0:
    Let(RunOp(elem, w0), LAMBDA r:
         IF ~r.ok THEN r ELSE
         Let(list_probe(r.w, "list_element", kind), LAMBDA q:
         IF is(q, ",")
         THEN parse_ts_delimited_list_inner(bump(q), kind, elem, Append(buf, r.v))
         ELSE IF is_ts_list_terminator(q, kind)
         THEN Ok(q, [kind |-> "List", items |-> Append(buf, r.v)])
         ELSE IF kind = "EnumMembers"
         THEN parse_ts_delimited_list_inner(emit_err(q, "ExpectedComma"), kind, elem,
                                            Append(buf, r.v))
         ELSE Err(q, "Expected"))))

\* parse_ts_delimited_list_inner, lines 108-151.
parse_ts_delimited_list_inner(w, kind, elem, buf) ==
    Let(list_probe(w, "list_step", kind), LAMBDA w0:
    IF is_ts_list_terminator(w0, kind) THEN Ok(w0, [kind |-> "List", items |-> buf])
    ELSE Let(RunOp(elem, w0), LAMBDA r:
         IF ~r.ok THEN r ELSE
         Let(list_probe(turned(r.w, "parse_ts_delimited_list", kind, w0),
                        "list_element", kind), LAMBDA q:
         IF is(q, ",")
         THEN parse_ts_delimited_list_inner(bump(q), kind, elem, Append(buf, r.v))
         ELSE IF is_ts_list_terminator(q, kind)
         THEN Ok(q, [kind |-> "List", items |-> Append(buf, r.v)])
         ELSE IF kind = "EnumMembers"
         THEN parse_ts_delimited_list_inner(emit_err(q, "ExpectedComma"), kind, elem,
                                            Append(buf, r.v))
         ELSE Err(q, "Expected"))))

\* parse_ts_delimited_list, lines 92-105.
parse_ts_delimited_list(w, kind, elem) ==
    parse_ts_delimited_list_inner(w, kind, elem, <<>>)

\* parse_ts_bracketed_list, lines 153-182.
parse_ts_bracketed_list(w, kind, elem, bracket, skip_first_token) ==
    LET o == IF skip_first_token THEN Ok(w, NoneV)
             ELSE expect(w, IF bracket THEN "[" ELSE "<")
    IN IF ~o.ok THEN o ELSE
       Let(parse_ts_delimited_list(o.w, kind, elem), LAMBDA result:
       IF ~result.ok THEN result ELSE
       LET c == expect(result.w, IF bracket THEN "]" ELSE ">") IN
       IF ~c.ok THEN c ELSE Ok(c.w, result.v))

(***************************************************************************)
(* Tuple types.                                                            *)
(***************************************************************************)
\* The closure of try_parse_ts_tuple_element_name, lines 1738-1765.
tuple_element_name_op(p) ==
    LET start == p.pos
        rest == is(p, "...")
        p1 == IF rest THEN bump(p) ELSE p
        n == parse_ident_name(p1)
    IN IF ~n.ok THEN n ELSE
       LET opt == is(n.w, "?")
           p2 == IF opt THEN bump(n.w) ELSE n.w
           ident == [n.v EXCEPT !.optional = opt, !.hi = p2.pos]
           c == expect(p2, ":")
       IN IF ~c.ok THEN c
          ELSE Ok(c.w, IF rest
                       THEN [kind |-> "RestPat", lo |-> start, hi |-> c.w.pos, arg |-> ident]
                       ELSE ident)

\* try_parse_ts_tuple_element_name, lines 1733-1766.
try_parse_ts_tuple_element_name(w) == try_parse_ts("tuple_element_name", w)

\* parse_ts_tuple_element_type, lines 1769-1808.
parse_ts_tuple_element_type(w) ==
    LET start == w.pos
    IN Let(try_parse_ts_tuple_element_name(w), LAMBDA label:
    IF is(label.w, "...")
       THEN Let(RunOp("parse_ts_type", bump(label.w)), LAMBDA t:
            IF ~t.ok THEN t
            ELSE Ok(t.w, [kind |-> "TsTupleElement", lo |-> start, hi |-> t.w.pos,
                          label |-> label.v,
                          ty |-> [kind |-> "TsRestType", lo |-> start, hi |-> t.w.pos,
                                  type_ann |-> t.v]]))
       ELSE Let(RunOp("parse_ts_type", label.w), LAMBDA ty:
            IF ~ty.ok THEN ty
            ELSE IF is(ty.w, "?")
                 THEN Ok(bump(ty.w),
                         [kind |-> "TsTupleElement", lo |-> start, hi |-> ty.w.pos + 1,
                          label |-> label.v,
                          ty |-> [kind |-> "TsOptionalType", lo |-> start,
                                  hi |-> ty.w.pos + 1, type_ann |-> ty.v]])
                 ELSE Ok(ty.w, [kind |-> "TsTupleElement", lo |-> start, hi |-> ty.w.pos,
                                label |-> label.v, ty |-> ty.v])))

\* The validation loop as it would be if a rest element had to come last.
RECURSIVE required_after_optional_rest_last(_, _, _)
required_after_optional_rest_last(elems, i, seen_optional_element) ==
    IF i > Len(elems) THEN FALSE
    ELSE CASE elems[i].ty.kind = "TsRestType" ->
                IF i < Len(elems) THEN TRUE
                ELSE required_after_optional_rest_last(elems, i + 1, seen_optional_element)
           [] elems[i].ty.kind = "TsOptionalType" ->
                required_after_optional_rest_last(elems, i + 1, TRUE)
           [] OTHER ->
                IF seen_optional_element THEN TRUE
                ELSE required_after_optional_rest_last(elems, i + 1, seen_optional_element)

\* The validation loop of parse_ts_tuple_type, lines 1708-1725: TRUE when it
\* reaches the syntax_error! arm.
RECURSIVE required_after_optional(_, _, _)
required_after_optional(elems, i, seen_optional_element) ==
    IF i > Len(elems) THEN FALSE
    ELSE CASE elems[i].ty.kind = "TsRestType" ->
                required_after_optional(elems, i + 1, seen_optional_element)
           [] elems[i].ty.kind = "TsOptionalType" ->
                required_after_optional(elems, i + 1, TRUE)
           [] OTHER ->
                IF seen_optional_element THEN TRUE
                ELSE required_after_optional(elems, i + 1, seen_optional_element)

\* The element kinds the validation of a tuple went over, and its verdict,
\* go to the history variable.
validated(w, start, elems, rejected) ==
    [w EXCEPT !.log = Append(@, [at |-> "tuple_validated", lo |-> start,
                                 kinds |-> [i \in 1..Len(elems) |-> elems[i].ty.kind],
                                 rejected |-> rejected])]

\* parse_ts_tuple_type, lines 1693-1731.
parse_ts_tuple_type(w) ==
    LET start == w.pos
    IN Let(parse_ts_bracketed_list(w, "TupleElementTypes", "tuple_element_type",
                                         TRUE, FALSE), LAMBDA elems:
    IF ~elems.ok THEN elems
       ELSE LET rejected == required_after_optional(elems.v.items, 1, FALSE)
                p == validated(elems.w, start, elems.v.items, rejected)
            IN IF rejected
               THEN Err(p, "TsRequiredAfterOptional")
               ELSE Ok(p, [kind |-> "TsTupleType", lo |-> start, hi |-> p.pos,
                           elem_types |-> elems.v.items]))

(***************************************************************************)
(* Mapped types.                                                           *)
(***************************************************************************)
\* is_ts_start_of_mapped_type, lines 1596-1616.
is_ts_start_of_mapped_type(w) ==
    LET p1 == bump(w) IN
    IF is(p1, "+") \/ is(p1, "-") THEN Ok(bump(p1), BoolV(is(bump(p1), "readonly")))
    ELSE LET p2 == IF is(p1, "readonly") THEN bump(p1) ELSE p1 IN
         IF ~is(p2, "[") THEN Ok(p2, BoolV(FALSE))
         ELSE LET p3 == bump(p2) IN
              IF ~(cur(p3) \in IdentRef) THEN Ok(p3, BoolV(FALSE))
              ELSE Ok(bump(p3), BoolV(is(bump(p3), "in")))

\* parse_ts_mapped_type_param, lines 1619-1635.
parse_ts_mapped_type_param(w) ==
    LET start == w.pos
        n == parse_ident_name(w)
    IN IF ~n.ok THEN n ELSE
       Let(expect_then_parse_ts_type(n.w, "in"), LAMBDA c:
       IF ~c.ok THEN c
       ELSE Ok(c.w, [kind |-> "TsTypeParam", lo |-> start, hi |-> c.w.pos,
                     name |-> n.v, constraint |-> c.v]))

\* try_parse_ts_type, lines 2002-2008.
try_parse_ts_type(w) == eat_then_parse_ts_type(w, ":")

\* The modifier step as it would be if it dropped the sign of the modifier.
mapped_modifier_unsigned(w, word) ==
    IF is_one_of(w, {"+", "-"})
    THEN LET e == expect(bump(w), word)
         IN IF ~e.ok THEN e ELSE Ok(e.w, [kind |-> "TruePlusMinus", m |-> "True"])
    ELSE IF is(w, word) THEN Ok(bump(w), [kind |-> "TruePlusMinus", m |-> "True"])
    ELSE Ok(w, [kind |-> "TruePlusMinus", m |-> "None"])

\* The modifier step of parse_ts_mapped_type (lines 1643-1654 for readonly,
\* 1665-1676 for `?`): v.m is the TruePlusMinus or "None".
mapped_modifier(w, word) ==
    IF is_one_of(w, {"+", "-"})
    THEN LET m == IF is(w, "+") THEN "Plus" ELSE "Minus"
             e == expect(bump(w), word)
         IN IF ~e.ok THEN e ELSE Ok(e.w, [kind |-> "TruePlusMinus", m |-> m])
    ELSE IF is(w, word) THEN Ok(bump(w), [kind |-> "TruePlusMinus", m |-> "True"])
    ELSE Ok(w, [kind |-> "TruePlusMinus", m |-> "None"])

\* parse_ts_mapped_type, lines 1638-1690.
parse_ts_mapped_type(w) ==
    LET start == w.pos
        o == expect(w, "{")
    IN IF ~o.ok THEN o ELSE
       LET readonly == mapped_modifier(o.w, "readonly") IN
       IF ~readonly.ok THEN readonly ELSE
       LET b == expect(readonly.w, "[") IN
       IF ~b.ok THEN b ELSE
       Let(parse_ts_mapped_type_param(b.w), LAMBDA type_param:
       IF ~type_param.ok THEN type_param ELSE
       Let(IF is(type_param.w, "as") THEN RunOp("parse_ts_type", bump(type_param.w))
                        ELSE OkNone(type_param.w), LAMBDA name_type:
       IF ~name_type.ok THEN name_type ELSE
       LET cb == expect(name_type.w, "]") IN
       IF ~cb.ok THEN cb ELSE
       LET optional == mapped_modifier(cb.w, "?") IN
       IF ~optional.ok THEN optional ELSE
       Let(try_parse_ts_type(optional.w), LAMBDA type_ann:
       IF ~type_ann.ok THEN type_ann ELSE
       LET s1 == expect_semi(type_ann.w) IN
       IF ~s1.ok THEN s1 ELSE
       LET s2 == expect(s1.w, "}") IN
       IF ~s2.ok THEN s2
       ELSE Ok(s2.w, [kind |-> "TsMappedType", lo |-> start, hi |-> s2.w.pos,
                      readonly |-> readonly.v.m, optional |-> optional.v.m,
                      type_param |-> type_param.v, name_type |-> name_type.v,
                      type_ann |-> type_ann.v]))))


(***************************************************************************)
(* Collaborators of the expression and statement parser, in the reduced    *)
(* form the type parser's inputs need.                                     *)
(***************************************************************************)
\* parse_binding_pat_or_ident for an array or object pattern start: the
\* patterns `[]`, `[x]`, `{}` and `{x}`.
parse_binding_pat_or_ident(w) ==
    LET close == IF is(w, "[") THEN "]" ELSE "}"
        p1 == bump(w)
        p2 == IF cur(p1) \in IdentRef THEN bump(p1) ELSE p1
    IN IF ~is_one_of(w, {"[", "{"}) THEN Err(w, "Unexpected")
       ELSE IF is(p2, close) THEN Ok(bump(p2), [kind |-> "Pat", lo |-> w.pos, hi |-> p2.pos + 1])
       ELSE Err(p2, "Expected")

\* One formal parameter: [...] name [?] [: type].
parse_formal_param(w) ==
    LET start == w.pos
        rest == is(w, "...")
        p1 == IF rest THEN bump(w) ELSE w
    IN IF is_one_of(p1, {"[", "{"})
       THEN parse_binding_pat_or_ident(p1)
       ELSE IF ~(cur(p1) \in IdentRef \cup {"this"}) THEN Err(p1, "Unexpected")
       ELSE LET p2 == bump(p1)
                p3 == IF is(p2, "?") THEN bump(p2) ELSE p2
            IN Let(IF is(p3, ":") THEN parse_ts_type_ann(p3, TRUE, p3.pos) ELSE OkNone(p3), LAMBDA t:
            IF ~t.ok THEN t
               ELSE Ok(t.w, [kind |-> IF rest THEN "Rest" ELSE "Ident", lo |-> start,
                             hi |-> t.w.pos, sym |-> cur(p1), type_ann |-> t.v]))

\* parse_formal_params: parameters up to, not including, the `)`.
RECURSIVE parse_formal_params(_, _)
parse_formal_params(w, buf) ==
    IF is(w, ")") \/ cur(w) = "EOF" THEN Ok(w, [kind |-> "List", items |-> buf])
    ELSE Let(parse_formal_param(w), LAMBDA r:
         IF ~r.ok THEN r
         ELSE IF is(r.w, ")") THEN Ok(r.w, [kind |-> "List", items |-> Append(buf, r.v)])
         ELSE LET c == expect(r.w, ",") IN
              IF ~c.ok THEN c ELSE parse_formal_params(c.w, Append(buf, r.v)))

\* is_start_of_expr: the tokens an expression can start with.
is_start_of_expr(w) ==
    cur(w) \in IdentWords \cup {"this", "null", "true", "false", "num", "bigint", "str",
                                "(", "[", "{", "function", "class", "new", "typeof",
                                "void", "+", "-", "<", "import", "await", "yield"}

(***************************************************************************)
(* Type parameters and type arguments.                                     *)
(***************************************************************************)
\* ts_in_no_context, lines 2775-2792: the stack left by op is replaced by the
\* one saved at entry, whatever op returned.
ts_in_no_context_enter(w) == [w EXCEPT !.tc = <<w.tc[1]>>]

\* The leaving step as it would be if a hard failure of op returned before
\* the saved stack is put back.
ts_in_no_context_leave_on_success(saved, r) ==
    IF r.ok THEN [r EXCEPT !.w.tc = saved.tc] ELSE r

ts_in_no_context_leave(saved, r) == [r EXCEPT !.w.tc = saved.tc]

\* The stack held where the closing `>` of a type-argument list is expected,
\* and the one that was held at the entry of the list, go to the history
\* variable.
closing(w, entry) ==
    [w EXCEPT !.log = Append(@, [at |-> "type_args_close", pos |-> w.pos, tc |-> w.tc,
                                 saved |-> entry.tc])]

\* parse_ts_type_args, lines 2668-2698.
parse_ts_type_args(w) ==
    LET start == w.pos
        p0 == ts_in_no_context_enter([w EXCEPT !.ctx = @ \cup {InType}])
        o == IF is(p0, "<<") THEN Ok(cut_lshift(p0), NoneV) ELSE expect(p0, "<")
    IN Let(restore_ctx(w, ts_in_no_context_leave(w,
                    IF ~o.ok THEN o
                    ELSE parse_ts_delimited_list(o.w, "TypeParametersOrArguments", "type_arg"))), LAMBDA params:
    IF ~params.ok THEN params ELSE
       LET c == expect(closing(params.w, w), ">") IN
       IF ~c.ok THEN c
       ELSE Ok(c.w, [kind |-> "TsTypeParamInstantiation", lo |-> start, hi |-> c.w.pos,
                     params |-> params.v.items]))

\* The closure of try_parse_ts_type_args, lines 600-619.
type_args_op(p) ==
    Let(parse_ts_type_args(p), LAMBDA type_args:
    IF ~type_args.ok THEN type_args
    ELSE LET q == type_args.w IN
         IF is_one_of(q, {"<", ">", "=", ">>", ">=", "+", "-", "(", "tpl"}) THEN OkNone(q)
         ELSE IF had_line_break_before_cur(q) \/ cur(q) \in {"|", "&", "<<", ">>>"}
                 \/ ~is_start_of_expr(q)
              THEN type_args
              ELSE OkNone(q))

\* try_parse_ts_type_args, lines 596-620.
try_parse_ts_type_args(w) == try_parse_ts("type_args", w)

\* The modifier loop of parse_ts_type_param, lines 418-462.
RECURSIVE type_param_modifiers(_, _, _, _, _)
type_param_modifiers(w, permit_in_out, permit_const, is_in, is_out) ==
    Let(parse_ts_modifier({"public", "private", "protected", "readonly", "abstract",
                                "const", "override", "in", "out"}, w), LAMBDA m:
    IF ~m.ok THEN m
       ELSE IF ~m.some THEN Ok(m.w, [kind |-> "Flags", is_in |-> is_in, is_out |-> is_out])
       ELSE CASE m.v.sym = "const" ->
                   type_param_modifiers(
                     IF ~permit_const THEN emit_err(m.w, "TS1277") ELSE m.w,
                     permit_in_out, permit_const, is_in, is_out)
              [] m.v.sym = "in" ->
                   type_param_modifiers(
                     IF ~permit_in_out THEN emit_err(m.w, "TS1274")
                     ELSE IF is_in THEN emit_err(m.w, "TS1030")
                     ELSE IF is_out THEN emit_err(m.w, "TS1029")
                     ELSE m.w,
                     permit_in_out, permit_const, TRUE, is_out)
              [] m.v.sym = "out" ->
                   type_param_modifiers(
                     IF ~permit_in_out THEN emit_err(m.w, "TS1274")
                     ELSE IF is_out THEN emit_err(m.w, "TS1030")
                     ELSE m.w,
                     permit_in_out, permit_const, is_in, TRUE)
              [] OTHER ->
                   type_param_modifiers(emit_err(m.w, "TS1273"),
                                        permit_in_out, permit_const, is_in, is_out))

\* parse_ts_type_param, lines 405-477.
parse_ts_type_param(w, permit_in_out, permit_const) ==
    LET start == w.pos
    IN Let(type_param_modifiers(w, permit_in_out, permit_const, FALSE, FALSE), LAMBDA m:
    IF ~m.ok THEN m ELSE
       LET name == parse_ident_name(m.w) IN
       IF ~name.ok THEN name ELSE
       Let(eat_then_parse_ts_type(name.w, "extends"), LAMBDA constraint:
       IF ~constraint.ok THEN constraint ELSE
       Let(eat_then_parse_ts_type(constraint.w, "="), LAMBDA default:
       IF ~default.ok THEN default
       ELSE Ok(default.w, [kind |-> "TsTypeParam", lo |-> start, hi |-> default.w.pos,
                           name |-> name.v, is_in |-> m.v.is_in, is_out |-> m.v.is_out,
                           constraint |-> constraint.v, default |-> default.v]))))

\* parse_ts_type_params, lines 480-508.
parse_ts_type_params(w, permit_in_out, permit_const) ==
    LET p0 == ts_in_no_context_enter([w EXCEPT !.ctx = @ \cup {InType}])
        start == p0.pos
    IN restore_ctx(w, ts_in_no_context_leave(w,
         IF ~is(p0, "<") THEN Err(p0, "Unexpected")
         ELSE Let(parse_ts_bracketed_list(
                              bump(p0), "TypeParametersOrArguments",
                              IF permit_in_out THEN "type_param_in_out" ELSE "type_param_const",
                              FALSE, TRUE), LAMBDA params:
              IF ~params.ok THEN params
                 ELSE Ok(params.w, [kind |-> "TsTypeParamDecl", lo |-> start,
                                    hi |-> params.w.pos, params |-> params.v.items]))))

\* try_parse_ts_type_params, lines 2011-2026.
try_parse_ts_type_params(w, permit_in_out, permit_const) ==
    IF is(w, "<") THEN parse_ts_type_params(w, permit_in_out, permit_const) ELSE OkNone(w)

\* try_parse_ts_type_ann, lines 1988-1999.
try_parse_ts_type_ann(w) ==
    IF is(w, ":") THEN parse_ts_type_ann(w, TRUE, w.pos) ELSE OkNone(w)

(***************************************************************************)
(* Function and constructor types.                                         *)
(***************************************************************************)
\* parse_ts_binding_list_for_signature, lines 1942-1968.
parse_ts_binding_list_for_signature(w) ==
    Let(parse_formal_params(w, <<>>), LAMBDA params:
    IF ~params.ok THEN params ELSE
    LET c == expect(params.w, ")") IN
    IF ~c.ok THEN c ELSE Ok(c.w, params.v))

\* parse_ts_type_or_type_predicate_ann, lines 511-568.
parse_ts_type_or_type_predicate_ann(w, return_token) ==
    LET p0 == [w EXCEPT !.ctx = @ \cup {InType}]
        return_token_start == p0.pos
    IN restore_ctx(w,
         IF ~is(p0, return_token) THEN Err(p0, "Expected")
         ELSE LET p1 == bump(p0)
                  type_pred_start == p1.pos
                  has_type_pred_asserts == is(p1, "asserts") /\ peeked(p1) \in IdentRef
                  p2 == IF has_type_pred_asserts THEN bump(p1) ELSE p1
                  has_type_pred_is == cur(p2) \in IdentRef /\ peeked_is(p2, "is")
                                      /\ ~TokAt(p2.pos + 1).nl
              IN IF has_type_pred_asserts /\ cur(p2) = "EOF" THEN Err(p2, "Eof")
                 ELSE IF ~(has_type_pred_asserts \/ has_type_pred_is)
                 THEN parse_ts_type_ann(p2, FALSE, return_token_start)
                 ELSE LET v == parse_ident_name(p2) IN
                      IF ~v.ok THEN v ELSE
                      Let(IF has_type_pred_is
                               THEN parse_ts_type_ann(bump(v.w), FALSE, v.w.pos + 1)
                               ELSE OkNone(v.w), LAMBDA t:
                      IF ~t.ok THEN t
                         ELSE Ok(t.w, [kind |-> "TsTypeAnn", lo |-> return_token_start,
                                       hi |-> t.w.pos,
                                       type_ann |-> [kind |-> "TsTypePredicate",
                                                     lo |-> type_pred_start, hi |-> t.w.pos,
                                                     asserts |-> has_type_pred_asserts,
                                                     param_name |-> v.v, type_ann |-> t.v]])))

\* parse_ts_fn_or_constructor_type, lines 1826-1867.
parse_ts_fn_or_constructor_type(w, is_fn_type) ==
    LET start == w.pos
        is_abstract == (~is_fn_type) /\ is(w, "abstract")
        p1 == IF is_abstract THEN bump(w) ELSE w
        n == IF is_fn_type THEN Ok(p1, NoneV) ELSE expect(p1, "new")
    IN IF ~n.ok THEN n ELSE
       Let(try_parse_ts_type_params(n.w, FALSE, TRUE), LAMBDA type_params:
       IF ~type_params.ok THEN type_params ELSE
       LET o == expect(type_params.w, "(") IN
       IF ~o.ok THEN o ELSE
       Let(parse_ts_binding_list_for_signature(o.w), LAMBDA params:
       IF ~params.ok THEN params ELSE
       Let(parse_ts_type_or_type_predicate_ann(params.w, "=>"), LAMBDA type_ann:
       IF ~type_ann.ok THEN type_ann
       ELSE Ok(type_ann.w, [kind |-> IF is_fn_type THEN "TsFnType" ELSE "TsConstructorType",
                            lo |-> start, hi |-> type_ann.w.pos,
                            type_params |-> type_params.v, params |-> params.v.items,
                            type_ann |-> type_ann.v, is_abstract |-> is_abstract]))))

\* skip_ts_parameter_start, lines 1259-1274.
skip_ts_parameter_start(w) ==
    Let(eat_any_ts_modifier(w), LAMBDA m:
    IF ~m.ok THEN m
    ELSE IF cur(m.w) \in IdentName THEN Ok(bump(m.w), BoolV(TRUE))
    ELSE IF is_one_of(m.w, {"{", "["})
         THEN LET b == parse_binding_pat_or_ident(m.w) IN
              IF b.ok THEN Ok(b.w, BoolV(TRUE)) ELSE Ok(b.w, BoolV(FALSE))
         ELSE Ok(m.w, BoolV(FALSE)))

\* is_ts_unambiguously_start_of_fn_type as it would be if `( xxx )` were
\* taken for a function type whatever follows the `)`.
is_ts_unambiguously_start_of_fn_type_without_arrow(w) ==
    LET p == bump(w) IN
    IF is_one_of(p, {")", "..."}) THEN Ok(p, BoolV(TRUE))
    ELSE Let(skip_ts_parameter_start(p), LAMBDA s:
         IF ~s.ok THEN s
         ELSE IF s.v.b
              THEN IF is_one_of(s.w, {":", ",", "?", "=", ")"}) THEN Ok(s.w, BoolV(TRUE))
                   ELSE Ok(s.w, BoolV(FALSE))
              ELSE Ok(s.w, BoolV(FALSE)))

\* is_ts_unambiguously_start_of_fn_type, lines 1233-1256.
is_ts_unambiguously_start_of_fn_type(w) ==
    LET p == bump(w) IN
    IF is_one_of(p, {")", "..."}) THEN Ok(p, BoolV(TRUE))
    ELSE Let(skip_ts_parameter_start(p), LAMBDA s:
         IF ~s.ok THEN s
         ELSE IF s.v.b
              THEN IF is_one_of(s.w, {":", ",", "?", "="}) THEN Ok(s.w, BoolV(TRUE))
                   ELSE IF is(s.w, ")") /\ is(bump(s.w), "=>") THEN Ok(bump(s.w), BoolV(TRUE))
                   ELSE Ok(IF is(s.w, ")") THEN bump(s.w) ELSE s.w, BoolV(FALSE))
              ELSE Ok(s.w, BoolV(FALSE)))


(***************************************************************************)
(* Object type members.                                                    *)
(***************************************************************************)
\* parse_assignment_expr / parse_new_expr for a key: one name or literal.
parse_key_expr(w) ==
    IF cur(w) \in IdentRef \cup {"num", "str"}
    THEN Ok(bump(w), [kind |-> "Expr", sym |-> cur(w), lo |-> w.pos, hi |-> w.pos + 1,
                      private |-> FALSE])
    ELSE Err(w, "Unexpected")

\* parse_ts_type_member_semicolon, lines 1277-1285.
parse_ts_type_member_semicolon(w) ==
    IF is(w, ",") THEN Ok(bump(w), NoneV) ELSE expect_semi(w)

\* parse_ts_property_name, lines 1394-1420.  v.computed, v.key.
parse_ts_property_name(w) ==
    IF is(w, "[")
    THEN LET key == parse_key_expr(bump(w)) IN
         IF ~key.ok THEN key ELSE
         LET c == expect(key.w, "]") IN
         IF ~c.ok THEN c
         ELSE Ok(c.w, [kind |-> "PropName", computed |-> TRUE, key |-> key.v])
    ELSE LET p == [w EXCEPT !.ctx = @ \cup {"InPropertyName"}] IN
         restore_ctx(w,
           IF cur(p) = "EOF" THEN Err(p, "Eof")
           ELSE IF cur(p) \in {"num", "str"}
           THEN LET key == parse_key_expr(p) IN
                Ok(key.w, [kind |-> "PropName", computed |-> FALSE, key |-> key.v])
           ELSE IF is(p, "#")
           THEN LET n == parse_ident_name(bump(p)) IN
                IF ~n.ok THEN n
                ELSE Ok(emit_err(n.w, "PrivateNameInInterface"),
                        [kind |-> "PropName", computed |-> FALSE,
                         key |-> [kind |-> "Expr", sym |-> n.v.sym, lo |-> p.pos,
                                  hi |-> n.w.pos, private |-> TRUE]])
           ELSE LET n == parse_ident_name(p) IN
                IF ~n.ok THEN n
                ELSE Ok(n.w, [kind |-> "PropName", computed |-> FALSE,
                              key |-> [kind |-> "Expr", sym |-> n.v.sym, lo |-> p.pos,
                                       hi |-> n.w.pos, private |-> FALSE]]))

\* parse_ts_signature_member, lines 1288-1331.
parse_ts_signature_member(w, kind) ==
    LET start == w.pos
        n == IF kind = "TSConstructSignatureDeclaration" THEN expect(w, "new") ELSE Ok(w, NoneV)
    IN IF ~n.ok THEN n ELSE
       Let(try_parse_ts_type_params(n.w, FALSE, TRUE), LAMBDA type_params:
       IF ~type_params.ok THEN type_params ELSE
       LET o == expect(type_params.w, "(") IN
       IF ~o.ok THEN o ELSE
       Let(parse_ts_binding_list_for_signature(o.w), LAMBDA params:
       IF ~params.ok THEN params ELSE
       Let(IF is(params.w, ":")
                       THEN parse_ts_type_or_type_predicate_ann(params.w, ":")
                       ELSE OkNone(params.w), LAMBDA type_ann:
       IF ~type_ann.ok THEN type_ann ELSE
       LET s == parse_ts_type_member_semicolon(type_ann.w) IN
       IF ~s.ok THEN s
       ELSE Ok(s.w, [kind |-> IF kind = "TSConstructSignatureDeclaration"
                              THEN "TsConstructSignatureDecl" ELSE "TsCallSignatureDecl",
                     lo |-> start, hi |-> s.w.pos, params |-> params.v.items,
                     type_ann |-> type_ann.v, type_params |-> type_params.v]))))

\* is_ts_unambiguously_index_signature, lines 1334-1342.
is_ts_unambiguously_index_signature(w) ==
    LET p == bump(w) IN
    IF cur(p) \in IdentRef
    THEN Ok(bump(p), BoolV(is_one_of(bump(p), {":", ","})))
    ELSE Ok(p, BoolV(FALSE))

\* try_parse_ts_index_signature, lines 1345-1389 (is_static is false in the
\* type parser).
try_parse_ts_index_signature(w, index_signature_start, readonly) ==
    Let(IF is(w, "[") THEN ts_look_ahead("is_ts_unambiguously_index_signature", w)
             ELSE Ok(w, BoolV(FALSE)), LAMBDA l:
    IF ~l.ok THEN l
       ELSE IF ~l.v.b THEN OkNone(l.w)
       ELSE LET o == expect(l.w, "[") IN
            IF ~o.ok THEN o ELSE
            LET ident_start == o.w.pos
                id == parse_ident_name(o.w)
            IN IF ~id.ok THEN id ELSE
            LET type_ann_start == id.w.pos
                c == IF is(id.w, ",") THEN Ok(emit_err(bump(id.w), "TS1096"), NoneV)
                     ELSE expect(id.w, ":")
            IN IF ~c.ok THEN c ELSE
            Let(parse_ts_type_ann(c.w, FALSE, type_ann_start), LAMBDA type_ann:
            IF ~type_ann.ok THEN type_ann ELSE
            LET cb == expect(type_ann.w, "]") IN
            IF ~cb.ok THEN cb ELSE
            Let(try_parse_ts_type_ann(cb.w), LAMBDA ty:
            IF ~ty.ok THEN ty ELSE
            LET s == parse_ts_type_member_semicolon(ty.w) IN
            IF ~s.ok THEN s
            ELSE Ok(s.w, [kind |-> "TsIndexSignature", lo |-> index_signature_start,
                          hi |-> s.w.pos, readonly |-> readonly,
                          params |-> <<[kind |-> "Ident", sym |-> id.v.sym,
                                        lo |-> ident_start, hi |-> type_ann.w.pos,
                                        type_ann |-> type_ann.v]>>,
                          type_ann |-> ty.v]))))

\* parse_ts_property_or_method_signature, lines 1423-1473.
parse_ts_property_or_method_signature(w, start, readonly) ==
    Let(parse_ts_property_name(w), LAMBDA name:
    IF ~name.ok THEN name ELSE
    LET optional == is(name.w, "?")
        p == IF optional THEN bump(name.w) ELSE name.w
    IN IF is_one_of(p, {"(", "<"})
       THEN IF readonly THEN Err(p, "ReadOnlyMethod") ELSE
            Let(try_parse_ts_type_params(p, FALSE, TRUE), LAMBDA type_params:
            IF ~type_params.ok THEN type_params ELSE
            LET o == expect(type_params.w, "(") IN
            IF ~o.ok THEN o ELSE
            Let(parse_ts_binding_list_for_signature(o.w), LAMBDA params:
            IF ~params.ok THEN params ELSE
            Let(IF is(params.w, ":")
                            THEN parse_ts_type_or_type_predicate_ann(params.w, ":")
                            ELSE OkNone(params.w), LAMBDA type_ann:
            IF ~type_ann.ok THEN type_ann ELSE
            LET s == parse_ts_type_member_semicolon(type_ann.w) IN
            IF ~s.ok THEN s
            ELSE Ok(s.w, [kind |-> "TsMethodSignature", lo |-> start, hi |-> s.w.pos,
                          computed |-> name.v.computed, key |-> name.v.key,
                          optional |-> optional, readonly |-> FALSE,
                          type_ann |-> type_ann.v]))))
       ELSE Let(try_parse_ts_type_ann(p), LAMBDA type_ann:
            IF ~type_ann.ok THEN type_ann ELSE
            LET s == parse_ts_type_member_semicolon(type_ann.w) IN
            IF ~s.ok THEN s
            ELSE Ok(s.w, [kind |-> "TsPropertySignature", lo |-> start, hi |-> s.w.pos,
                          computed |-> name.v.computed, key |-> name.v.key,
                          optional |-> optional, readonly |-> readonly,
                          type_ann |-> type_ann.v])))

\* The closure of parse_ts_type_member as it would be without the test of
\* readonly.
accessor_op_allowing_readonly(p, readonly) ==
    LET start == p.pos IN
    IF ~is_one_of(p, {"get", "set"}) THEN Err(p, "Expected")
    ELSE LET is_get == is(p, "get") IN
         Let(parse_ts_property_name(bump(p)), LAMBDA name:
            IF ~name.ok THEN name ELSE
            LET o == expect(name.w, "(") IN
            IF ~o.ok THEN o
            ELSE IF is_get
            THEN LET c == expect(o.w, ")") IN
                 IF ~c.ok THEN c ELSE
                 Let(try_parse_ts_type_ann(c.w), LAMBDA type_ann:
                 IF ~type_ann.ok THEN type_ann ELSE
                 LET s == parse_ts_type_member_semicolon(type_ann.w) IN
                 IF ~s.ok THEN s
                 ELSE Ok(s.w, [kind |-> "TsGetterSignature", lo |-> start, hi |-> s.w.pos,
                               computed |-> name.v.computed, key |-> name.v.key,
                               type_ann |-> type_ann.v]))
            ELSE Let(parse_ts_binding_list_for_signature(o.w), LAMBDA params:
                 IF ~params.ok THEN params
                 ELSE IF params.v.items = <<>> THEN Err(params.w, "SetterParamRequired")
                 ELSE LET s == parse_ts_type_member_semicolon(params.w) IN
                      IF ~s.ok THEN s
                      ELSE Ok(s.w, [kind |-> "TsSetterSignature", lo |-> start,
                                    hi |-> s.w.pos, computed |-> name.v.computed,
                                    key |-> name.v.key, param |-> params.v.items[1]])))

\* The closure of parse_ts_type_member, lines 1506-1552.
accessor_op(p, readonly) ==
    LET start == p.pos IN
    IF readonly THEN Err(p, "GetterSetterCannotBeReadonly")
    ELSE IF ~is_one_of(p, {"get", "set"}) THEN Err(p, "Expected")
    ELSE LET is_get == is(p, "get") IN
         Let(parse_ts_property_name(bump(p)), LAMBDA name:
            IF ~name.ok THEN name ELSE
            LET o == expect(name.w, "(") IN
            IF ~o.ok THEN o
            ELSE IF is_get
            THEN LET c == expect(o.w, ")") IN
                 IF ~c.ok THEN c ELSE
                 Let(try_parse_ts_type_ann(c.w), LAMBDA type_ann:
                 IF ~type_ann.ok THEN type_ann ELSE
                 LET s == parse_ts_type_member_semicolon(type_ann.w) IN
                 IF ~s.ok THEN s
                 ELSE Ok(s.w, [kind |-> "TsGetterSignature", lo |-> start, hi |-> s.w.pos,
                               computed |-> name.v.computed, key |-> name.v.key,
                               type_ann |-> type_ann.v]))
            ELSE Let(parse_ts_binding_list_for_signature(o.w), LAMBDA params:
                 IF ~params.ok THEN params
                 ELSE IF params.v.items = <<>> THEN Err(params.w, "SetterParamRequired")
                 ELSE LET s == parse_ts_type_member_semicolon(params.w) IN
                      IF ~s.ok THEN s
                      ELSE Ok(s.w, [kind |-> "TsSetterSignature", lo |-> start,
                                    hi |-> s.w.pos, computed |-> name.v.computed,
                                    key |-> name.v.key, param |-> params.v.items[1]])))

\* is_ts_start_of_construct_signature, lines 1564-1570.
is_ts_start_of_construct_signature(w) ==
    Ok(bump(w), BoolV(is(bump(w), "(") \/ is(bump(w), "<")))

\* parse_ts_type_member, lines 1476-1561.
parse_ts_type_member(w) ==
    IF is_one_of(w, {"(", "<"})
    THEN parse_ts_signature_member(w, "TSCallSignatureDeclaration")
    ELSE Let(IF is(w, "new")
                  THEN ts_look_ahead("is_ts_start_of_construct_signature", w)
                  ELSE Ok(w, BoolV(FALSE)), LAMBDA n:
         IF ~n.ok THEN n
            ELSE IF n.v.b THEN parse_ts_signature_member(n.w, "TSConstructSignatureDeclaration")
            ELSE LET start == n.w.pos
                 IN Let(parse_ts_modifier({"readonly"}, n.w), LAMBDA m:
                 IF ~m.ok THEN m ELSE
                    LET readonly == m.some
                    IN Let(try_parse_ts_index_signature(m.w, start, readonly), LAMBDA idx:
                    IF ~idx.ok THEN idx
                       ELSE IF idx.some THEN idx
                       ELSE Let(try_parse_ts(IF readonly THEN "accessor_readonly"
                                                  ELSE "accessor", idx.w), LAMBDA v:
                            IF v.some THEN v
                               ELSE parse_ts_property_or_method_signature(v.w, start, readonly)))))

\* parse_ts_object_type_members, lines 1585-1593.
parse_ts_object_type_members(w) ==
    LET o == expect(w, "{") IN
    IF ~o.ok THEN o ELSE
    Let(parse_ts_list(o.w, "TypeMembers", "type_member", <<>>), LAMBDA members:
    IF ~members.ok THEN members ELSE
    LET c == expect(members.w, "}") IN
    IF ~c.ok THEN c ELSE Ok(c.w, members.v))

\* parse_ts_type_lit, lines 1573-1582.
parse_ts_type_lit(w) ==
    LET start == w.pos
    IN Let(parse_ts_object_type_members(w), LAMBDA members:
    IF ~members.ok THEN members
       ELSE Ok(members.w, [kind |-> "TsTypeLit", lo |-> start, hi |-> members.w.pos,
                           members |-> members.v.items]))

\* The closures of the parser: the operations handed to try_parse_ts,
\* try_parse_ts_bool and ts_look_ahead, the element parsers handed to the list
\* parsers, and the two entry points of the type grammar that the routines
\* re-enter (p.parse_ts_type() and p.parse_ts_non_conditional_type()), and
\* the routines the state machine calls on the live parser.
RunOp(op, w) ==
    CASE op = "parse_ts_type" -> parse_ts_type(w)
      [] op = "parse_ts_non_conditional_type" -> parse_ts_non_conditional_type(w)
      [] op = "ts_next_token_can_follow_modifier" -> ts_next_token_can_follow_modifier(w)
      [] op = "type_args" -> type_args_op(w)
      [] op = "tuple_element_name" -> tuple_element_name_op(w)
      [] op = "infer_constraint" -> infer_constraint_op(w)
      [] op \in {"accessor", "accessor_readonly"} -> accessor_op(w, op = "accessor_readonly")
      [] op = "is_ts_unambiguously_start_of_fn_type" -> is_ts_unambiguously_start_of_fn_type(w)
      [] op = "is_ts_start_of_mapped_type" -> is_ts_start_of_mapped_type(w)
      [] op = "is_ts_start_of_fn_type" -> is_ts_start_of_fn_type(w)
      [] op = "is_ts_unambiguously_index_signature" -> is_ts_unambiguously_index_signature(w)
      [] op = "is_ts_start_of_construct_signature" -> is_ts_start_of_construct_signature(w)
      [] op = "tuple_element_type" -> parse_ts_tuple_element_type(w)
      [] op = "type_arg" -> parse_ts_type(probe(w, "type_arg"))
      [] op = "type_param_in_out" -> parse_ts_type_param(probe(w, "type_param"), TRUE, FALSE)
      [] op = "type_param_const" -> parse_ts_type_param(probe(w, "type_param"), FALSE, TRUE)
      [] op = "type_member" -> parse_ts_type_member(w)
      [] op = "parse_ts_non_array_type" -> parse_ts_non_array_type(w)
      [] op = "parse_ts_tuple_type" -> parse_ts_tuple_type(w)
      [] op = "parse_ts_mapped_type" -> parse_ts_mapped_type(w)
      [] op = "parse_ts_type_operator_or_higher" -> parse_ts_type_operator_or_higher(w)
      [] op = "Union" -> parse_ts_union_type_or_higher(w)
      [] op = "Intersection" -> parse_ts_intersection_type_or_higher(w)
      [] op = "enum_member" -> parse_ts_enum_member(w)
      [] op = "heritage_clause_element" -> parse_ts_heritage_clause_element(w)
      [] op = "parse_ts_decl" -> parse_ts_decl(w, w.pos, cur(w), TRUE)
      [] op = "try_parse_ts_declare" -> try_parse_ts_declare(bump(w), w.pos)
      [] op = "parse_ts_type_alias_decl" -> parse_ts_type_alias_decl(bump(w), w.pos)
      [] op = "parse_type" -> parse_type(w)

\* parse_ts_type_alias_decl, lines 1138-1155 (the `type` keyword is consumed
\* by the caller).
parse_ts_type_alias_decl(w, start) ==
    LET id == parse_ident_name(w) IN
    IF ~id.ok THEN id ELSE
    Let(try_parse_ts_type_params(id.w, TRUE, FALSE), LAMBDA type_params:
    IF ~type_params.ok THEN type_params ELSE
    Let(expect_then_parse_ts_type(type_params.w, "="), LAMBDA type_ann:
    IF ~type_ann.ok THEN type_ann ELSE
    LET s == expect_semi(type_ann.w) IN
    IF ~s.ok THEN s
    ELSE Ok(s.w, [kind |-> "TsTypeAliasDecl", lo |-> start, hi |-> s.w.pos, declare |-> FALSE,
                  id |-> id.v, type_params |-> type_params.v, type_ann |-> type_ann.v])))


(***************************************************************************)
(* Declarations.  The statement parser's routines that the declaration     *)
(* routines call are given for the statements of the model's alphabet;     *)
(* each records the flags it is entered with.                              *)
(***************************************************************************)
\* parse_fn_decl: `function a ( ) ;`.
parse_fn_decl(w) ==
    LET f == expect(probe(w, "fn_decl"), "function") IN
    IF ~f.ok THEN f ELSE
    LET id == parse_ident(f.w) IN
    IF ~id.ok THEN id ELSE
    LET o == expect(id.w, "(") IN
    IF ~o.ok THEN o ELSE
    LET c == expect(o.w, ")") IN
    IF ~c.ok THEN c ELSE
    LET e == expect_semi(c.w) IN
    IF ~e.ok THEN e
    ELSE Ok(e.w, [kind |-> "FnDecl", lo |-> w.pos, hi |-> e.w.pos, declare |-> FALSE,
                  id |-> id.v])

\* parse_class_decl: `class A { }`.
parse_class_decl(w, start, is_abstract) ==
    LET k == expect(probe(w, "class_decl"), "class") IN
    IF ~k.ok THEN k ELSE
    LET id == parse_ident(k.w) IN
    IF ~id.ok THEN id ELSE
    LET o == expect(id.w, "{") IN
    IF ~o.ok THEN o ELSE
    LET c == expect(o.w, "}") IN
    IF ~c.ok THEN c
    ELSE Ok(c.w, [kind |-> "ClassDecl", lo |-> start, hi |-> c.w.pos, declare |-> FALSE,
                  id |-> id.v, is_abstract |-> is_abstract])

\* parse_var_stmt: `const a ;`, `var a ;`, `let a ;`.
parse_var_stmt(w) ==
    LET k == probe(w, "var_stmt") IN
    IF ~is_one_of(k, {"const", "var", "let"}) THEN Err(k, "Unexpected") ELSE
    LET id == parse_ident(bump(k)) IN
    IF ~id.ok THEN id ELSE
    LET e == expect_semi(id.w) IN
    IF ~e.ok THEN e
    ELSE Ok(e.w, [kind |-> "VarDecl", lo |-> w.pos, hi |-> e.w.pos, declare |-> FALSE,
                  var_kind |-> cur(k), id |-> id.v])

\* The words a declaration of the type parser starts with.
DeclWords == {"abstract", "enum", "interface", "module", "namespace", "type"}

\* parse_block_body(false, Some(`}`)): statements up to the closing brace,
\* which is consumed.  The statements of the model are `declare`
\* declarations, the declarations of parse_ts_decl and the empty statement.
RECURSIVE block_items(_, _)
block_items(w, buf) ==
    IF is(w, "}") THEN Ok(bump(w), [kind |-> "List", items |-> buf])
    ELSE IF is(w, ";") THEN block_items(bump(w), buf)
    ELSE IF cur(w) \notin DeclWords \cup {"declare"} THEN Err(w, "Unexpected")
    ELSE Let(RunOp(IF is(w, "declare") THEN "try_parse_ts_declare" ELSE "parse_ts_decl", w),
             LAMBDA item:
         IF ~item.ok THEN item
         ELSE IF ~item.some THEN Err(item.w, "Unexpected")
         ELSE block_items(item.w, Append(buf, item.v)))

parse_block_body(w) == block_items(probe(w, "block_body"), <<>>)

\* parse_subscripts(Callee::Expr(ident), true, true): the member chain
\* after an identifier.
RECURSIVE parse_subscripts(_, _)
parse_subscripts(w, obj) ==
    IF ~is(w, ".") THEN Ok(w, obj)
    ELSE LET prop == parse_ident_name(bump(w)) IN
         IF ~prop.ok THEN prop
         ELSE parse_subscripts(prop.w, [kind |-> "Member", lo |-> obj.lo, hi |-> prop.w.pos,
                                        obj |-> obj, prop |-> prop.v])

\* The name of an enum member, lines 753-793 of parse_ts_enum_member.
parse_ts_enum_member_id(w) ==
    LET start == w.pos IN
    CASE cur(w) = "EOF" -> Err(w, "Eof")
      [] cur(w) = "str" -> parse_lit(w)
      [] cur(w) = "num" ->
           Ok(emit_err(bump(w), "TS2452"),
              [kind |-> "Str", value |-> 0, raw |-> TokAt(w.pos).raw,
               lo |-> start, hi |-> start + 1])
      [] cur(w) = "[" ->
           LET e == parse_key_expr(bump(w)) IN
           IF ~e.ok THEN e ELSE
           LET c == expect(emit_err(e.w, "TS1164"), "]") IN
           IF ~c.ok THEN c
           ELSE Ok(c.w, [kind |-> "Ident", sym |-> "", lo |-> start, hi |-> c.w.pos,
                         optional |-> FALSE])
      [] OTHER -> parse_ident_name(w)

\* parse_ts_enum_member, lines 748-812.
parse_ts_enum_member(w) ==
    Let(parse_ts_enum_member_id(w), LAMBDA id:
    IF ~id.ok THEN id ELSE
    Let(IF is(id.w, "=") THEN parse_key_expr(bump(id.w))
        ELSE IF is(id.w, ",") \/ is(id.w, "}") THEN OkNone(id.w)
        ELSE OkNone(emit_err(store(bump(id.w)), "TS1005")), LAMBDA init:
    IF ~init.ok THEN init
    ELSE Ok(init.w, [kind |-> "TsEnumMember", lo |-> w.pos, hi |-> init.w.pos,
                     id |-> id.v, init |-> init.v])))

\* parse_ts_enum_decl, lines 815-835.
parse_ts_enum_decl(w, start, is_const) ==
    LET id == parse_ident_name(w) IN
    IF ~id.ok THEN id ELSE
    LET o == expect(id.w, "{") IN
    IF ~o.ok THEN o ELSE
    Let(parse_ts_delimited_list(o.w, "EnumMembers", "enum_member"), LAMBDA members:
    IF ~members.ok THEN members ELSE
    LET c == expect(members.w, "}") IN
    IF ~c.ok THEN c
    ELSE Ok(c.w, [kind |-> "TsEnumDecl", lo |-> start, hi |-> c.w.pos, declare |-> FALSE,
                  is_const |-> is_const, id |-> id.v, members |-> members.v.items]))

\* parse_ts_module_block as it would be if the top-level flag were set on
\* the parser itself and left there.
parse_ts_module_block_leaking(w) ==
    LET start == w.pos
        o == expect(w, "{")
    IN IF ~o.ok THEN o ELSE
       Let(parse_block_body([o.w EXCEPT !.ctx = @ \cup {TopLevel}]), LAMBDA body:
       IF ~body.ok THEN body
       ELSE Ok(body.w, [kind |-> "TsModuleBlock", lo |-> start, hi |-> body.w.pos,
                        body |-> body.v.items]))

\* parse_ts_module_block, lines 838-857.
parse_ts_module_block(w) ==
    LET start == w.pos
        o == expect(w, "{")
    IN IF ~o.ok THEN o ELSE
       Let(restore_ctx(o.w, parse_block_body([o.w EXCEPT !.ctx = @ \cup {TopLevel}])),
           LAMBDA body:
       IF ~body.ok THEN body
       ELSE Ok(body.w, [kind |-> "TsModuleBlock", lo |-> start, hi |-> body.w.pos,
                        body |-> body.v.items]))

\* The inner declaration of `A.B { }` as the body of the outer one, lines
\* 872-882.
to_namespace_decl(r) ==
    IF ~r.ok THEN r
    ELSE [r EXCEPT !.v = [kind |-> "TsNamespaceDecl", lo |-> r.v.lo, hi |-> r.v.hi,
                          id |-> r.v.id, body |-> r.v.body, declare |-> r.v.declare,
                          global |-> r.v.global]]

\* parse_ts_module_or_ns_decl, lines 860-894.
RECURSIVE parse_ts_module_or_ns_decl(_, _, _)
parse_ts_module_or_ns_decl(w, start, namespace) ==
    LET id == parse_ident_name(w) IN
    IF ~id.ok THEN id ELSE
    Let(IF is(id.w, ".")
        THEN to_namespace_decl(parse_ts_module_or_ns_decl(bump(id.w), id.w.pos + 1, namespace))
        ELSE parse_ts_module_block(id.w), LAMBDA body:
    IF ~body.ok THEN body
    ELSE Ok(body.w, [kind |-> "TsModuleDecl", lo |-> start, hi |-> body.w.pos,
                     declare |-> FALSE, id |-> id.v, body |-> body.v, global |-> FALSE,
                     namespace |-> namespace]))

\* parse_ts_ambient_external_module_decl, lines 897-932.
parse_ts_ambient_external_module_decl(w, start) ==
    LET id == IF is(w, "global") THEN parse_ident_name(w)
              ELSE IF cur(w) = "EOF" THEN Err(w, "Eof")
              ELSE IF cur(w) = "str" THEN parse_lit(w)
              ELSE Err(w, "Unexpected")
    IN IF ~id.ok THEN id ELSE
       Let(IF is(id.w, "{") THEN parse_ts_module_block(id.w) ELSE expect(id.w, ";"),
           LAMBDA body:
       IF ~body.ok THEN body
       ELSE Ok(body.w, [kind |-> "TsModuleDecl", lo |-> start, hi |-> body.w.pos,
                        declare |-> FALSE, id |-> id.v, body |-> body.v,
                        global |-> is(w, "global"), namespace |-> FALSE]))

\* parse_ts_heritage_clause_element, lines 1046-1082.
parse_ts_heritage_clause_element(w) ==
    LET start == w.pos
        ident == parse_ident_name(w)
    IN IF ~ident.ok THEN ident ELSE
       LET expr == parse_subscripts(ident.w, ident.v) IN
       IF ~expr.ok THEN expr ELSE
       LET q == IF expr.v.kind \in {"Ident", "Member", "TsInstantiation"} THEN expr.w
                ELSE emit_err(expr.w, "TS2499")
       IN Let(IF is(q, "<") THEN parse_ts_type_args(q) ELSE OkNone(q), LAMBDA type_args:
          IF ~type_args.ok THEN type_args
          ELSE Ok(type_args.w, [kind |-> "TsExprWithTypeArgs", lo |-> start,
                                hi |-> type_args.w.pos, expr |-> expr.v,
                                type_args |-> type_args.v]))

\* parse_ts_heritage_clause, lines 1037-1044.
parse_ts_heritage_clause(w) ==
    parse_ts_delimited_list(w, "HeritageClauseElement", "heritage_clause_element")

\* The recovery of parse_ts_interface_decl as it would be if it skipped one
\* token.
skip_to_body_once(w) == IF cur(w) = "EOF" \/ is(w, "{") THEN w ELSE bump(w)

\* The recovery of parse_ts_interface_decl, lines 1110-1116: tokens are
\* skipped up to the `{` or the end of input.
RECURSIVE skip_to_body(_)
skip_to_body(w) == IF cur(w) = "EOF" \/ is(w, "{") THEN w ELSE skip_to_body(bump(w))

\* parse_ts_interface_decl, lines 1085-1135.
parse_ts_interface_decl(w, start) ==
    LET id == parse_ident_name(w) IN
    IF ~id.ok THEN id ELSE
    LET named == IF id.v.sym \in {"string", "null", "number", "object", "any", "unknown",
                                  "boolean", "bigint_kw", "symbol", "void", "never",
                                  "intrinsic"}
                 THEN emit_err(id.w, "TS2427") ELSE id.w
    IN Let(try_parse_ts_type_params(named, TRUE, FALSE), LAMBDA type_params:
    IF ~type_params.ok THEN type_params ELSE
    Let(IF is(type_params.w, "extends") THEN parse_ts_heritage_clause(bump(type_params.w))
        ELSE Ok(type_params.w, [kind |-> "List", items |-> <<>>]), LAMBDA extends:
    IF ~extends.ok THEN extends ELSE
    LET b == IF is(extends.w, "extends")
             THEN skip_to_body(emit_err(extends.w, "TS1172")) ELSE extends.w
    IN Let(restore_ctx(b, parse_ts_object_type_members(
                              probe([b EXCEPT !.ctx = @ \cup {InType}], "interface_body"))),
           LAMBDA body:
    IF ~body.ok THEN body
    ELSE Ok(body.w, [kind |-> "TsInterfaceDecl", lo |-> start, hi |-> body.w.pos,
                     declare |-> FALSE, id |-> id.v, type_params |-> type_params.v,
                     extends |-> extends.v.items, body |-> body.v]))))

\* parse_ts_decl, lines 2521-2607.
parse_ts_decl(w, start, value, next) ==
    LET p == IF next THEN bump(w) ELSE w IN
    CASE value = "abstract"
           /\ (next \/ (is(w, "class") /\ ~had_line_break_before_cur(w))) ->
           parse_class_decl(p, start, TRUE)
      [] value = "enum" /\ (next \/ cur(w) \in IdentRef) ->
           parse_ts_enum_decl(p, start, FALSE)
      [] value = "interface" /\ (next \/ cur(w) \in IdentRef) ->
           parse_ts_interface_decl(p, start)
      [] value = "module" /\ ~had_line_break_before_cur(w) ->
           IF cur(p) = "EOF" THEN Err(p, "Eof")
           ELSE IF cur(p) = "str" THEN parse_ts_ambient_external_module_decl(p, start)
           ELSE IF next \/ cur(p) \in IdentRef
           THEN parse_ts_module_or_ns_decl(p, start, FALSE)
           ELSE OkNone(p)
      [] value = "namespace" /\ (next \/ cur(w) \in IdentRef) ->
           parse_ts_module_or_ns_decl(p, start, TRUE)
      [] value = "type"
           /\ (next \/ (~had_line_break_before_cur(w) /\ cur(w) \in IdentRef)) ->
           parse_ts_type_alias_decl(p, start)
      [] OTHER -> OkNone(w)

\* make_decl_declare, lines 2817-2830, over the result of a routine.
make_decl_declare(r) == IF r.ok /\ r.some THEN [r EXCEPT !.v.declare = TRUE] ELSE r

\* The closures of lines 2402-2470, over the result of a routine: the
\* declaration is marked `declare` and its span starts at declare_start.
declared_from(r, declare_start) ==
    IF r.ok /\ r.some THEN [r EXCEPT !.v.declare = TRUE, !.v.lo = declare_start] ELSE r

\* try_parse_ts_declare as it would be if the dispatch on the current word
\* came before the other branches.
try_parse_ts_declare_dispatch_first(w, start) ==
    Let(IF InDeclare \in w.ctx THEN emit_err(w, "TS1038") ELSE w, LAMBDA w1:
    Let(probe([w1 EXCEPT !.ctx = @ \cup {InDeclare}], "declare_body"), LAMBDA p:
       restore_ctx(w1,
         IF cur(p) \in IdentName
         THEN make_decl_declare(parse_ts_decl(p, start, cur(p), TRUE))
         ELSE OkNone(p))))

\* try_parse_ts_declare, lines 2378-2495 (the `declare` word is consumed by
\* the caller; the syntax is TypeScript and not a .d.ts file).
try_parse_ts_declare(w, start) ==
    LET declare_start == start IN
    Let(IF InDeclare \in w.ctx THEN emit_err(w, "TS1038") ELSE w, LAMBDA w1:
    Let(probe([w1 EXCEPT !.ctx = @ \cup {InDeclare}], "declare_body"), LAMBDA p:
       restore_ctx(w1,
         IF is(p, "function") THEN declared_from(parse_fn_decl(p), declare_start)
         ELSE IF is(p, "class")
         THEN declared_from(parse_class_decl(p, start, FALSE), declare_start)
         ELSE IF is(p, "const") /\ peeked_is(p, "enum")
         THEN IF cur(bump(p)) = "EOF" THEN Err(bump(p), "Eof")
              ELSE declared_from(parse_ts_enum_decl(bump(bump(p)), start, TRUE),
                                 declare_start)
         ELSE IF is_one_of(p, {"const", "var", "let"})
         THEN declared_from(parse_var_stmt(p), declare_start)
         ELSE IF is(p, "global")
         THEN make_decl_declare(parse_ts_ambient_external_module_decl(p, start))
         ELSE IF cur(p) \in IdentName
         THEN make_decl_declare(parse_ts_decl(p, start, cur(p), TRUE))
         ELSE OkNone(p))))

(***************************************************************************)
(* The state machine: one parser working through one token buffer.  Each   *)
(* action is one call on the live parser; `last` keeps what was called,    *)
(* what it returned and the parser it was called on, `log` the probes of   *)
(* that call.                                                              *)
(***************************************************************************)
SeqsUpTo(S, n) == UNION {[1..m -> S] : m \in 0..n}

\* The live parser as a parser value.
Live ==
    [pos |-> parser.pos, cut |-> parser.cut, st |-> parser.st, ctx |-> parser.ctx,
     tc |-> parser.tc,
     errs |-> errors, log |-> <<>>, cap |-> captured]

\* The parser after a call that returned r.
Returned(op, arg, res) == \E r \in {res} :
    /\ parser' = StateOf(r.w)
    /\ errors' = r.w.errs
    /\ captured' = r.w.cap
    /\ log' = r.w.log
    /\ last' = [op |-> op, arg |-> arg, ok |-> r.ok, some |-> r.some, v |-> r.v,
                from |-> parser, errs0 |-> errors]
    /\ phase' = IF r.ok THEN "ready" ELSE "failed"
    /\ UNCHANGED input

InitWith(Inputs, Ctxs, Stacks) ==
    /\ input \in Inputs
    /\ parser \in [pos : {1}, cut : {FALSE}, st : {FALSE}, ctx : Ctxs, tc : Stacks]
    /\ errors = <<>>
    /\ captured = IF input = <<>> THEN <<>> ELSE <<1>>
    /\ log = <<>>
    /\ last = [op |-> "init", arg |-> "", ok |-> TRUE, some |-> FALSE, v |-> NoneV,
               from |-> parser, errs0 |-> <<>>]
    /\ phase = "ready"

Ready == phase = "ready"

\* The caller consumes the current token (bump!).
Bump ==
    /\ Ready
    /\ parser.pos <= Len(input)
    /\ Returned("bump", "", Ok(bump(Live), NoneV))

TryOps == {"type_args", "tuple_element_name", "infer_constraint", "accessor",
           "accessor_readonly", "parse_ts_decl"}

\* try_parse_ts with one of the closures of the source.
TryParseTs(op) ==
    /\ Ready
    /\ Returned("try_parse_ts", op, try_parse_ts(op, Live))

\* try_parse_ts_bool with the closure of parse_ts_modifier, called on a word.
TryParseTsBool ==
    /\ Ready
    /\ cur(Live) \in IdentName
    /\ Returned("try_parse_ts_bool", "ts_next_token_can_follow_modifier",
                try_parse_ts_bool("ts_next_token_can_follow_modifier", Live))

\* The token each look-ahead closure is called on.
LookAheadOps ==
    [is_ts_unambiguously_start_of_fn_type |-> "(",
     is_ts_start_of_mapped_type |-> "{",
     is_ts_unambiguously_index_signature |-> "[",
     is_ts_start_of_construct_signature |-> "new"]

\* ts_look_ahead with one of the closures of the source.
TsLookAhead(op) ==
    /\ Ready
    /\ is(Live, LookAheadOps[op])
    /\ Returned("ts_look_ahead", op, ts_look_ahead(op, Live))

\* The tokens a literal type or a signed literal starts with.
LitStart == {"-", "num", "bigint", "str", "true", "false"}

\* The expression parser on the same texts (the initializer of
\* `const t = -1`).
ParseUnaryExpr ==
    /\ Ready
    /\ cur(Live) \in LitStart
    /\ Returned("parse_unary_expr", "", parse_unary_expr(Live))

\* The routines called on the live parser, each where its callers in the
\* source call it: parse_ts_type and the union and intersection levels in
\* a type context, the tuple type on `[` in a type context (its one caller
\* is parse_ts_non_array_type, line 2194, under parse_ts_type), the mapped
\* type on `{`, parse_ts_non_array_type on the start of a literal type, and
\* the routines of the words `type` (parse_ts_decl, lines 2596-2604) and
\* `declare` on the word, which they consume;
\* parse_ts_type_operator_or_higher on a type operator in a type context
\* (lines 2253 and 2708, under parse_ts_type); is_ts_start_of_fn_type where
\* parse_ts_non_conditional_type calls it.
CallOps ==
    {"parse_type", "parse_ts_type", "Union", "Intersection", "parse_ts_tuple_type",
     "parse_ts_non_array_type", "parse_ts_mapped_type", "parse_ts_type_alias_decl",
     "try_parse_ts_declare", "parse_ts_type_operator_or_higher",
     "is_ts_start_of_fn_type"}

\* TsTypeOperatorOp: the words parse_ts_type_operator_or_higher takes for
\* type operators, lines 2297-2305.
TypeOperators == {"keyof", "unique", "readonly"}

MayCall(op) ==
    CASE op = "parse_type" -> TRUE
      [] op \in {"parse_ts_type", "Union", "Intersection"} -> InType \in parser.ctx
      [] op = "parse_ts_tuple_type" -> is(Live, "[") /\ InType \in parser.ctx
      [] op = "parse_ts_non_array_type" -> cur(Live) \in LitStart
      [] op = "parse_ts_mapped_type" -> is(Live, "{")
      [] op = "parse_ts_type_alias_decl" -> is(Live, "type")
      [] op = "try_parse_ts_declare" -> is(Live, "declare")
      [] op = "parse_ts_type_operator_or_higher" ->
           cur(Live) \in TypeOperators /\ InType \in parser.ctx
      [] op = "is_ts_start_of_fn_type" -> InType \in parser.ctx

\* The routine and the argument of a call as `last` keeps them.
Callee(op) ==
    IF op \in {"Union", "Intersection"} THEN "parse_ts_union_or_intersection_type" ELSE op

Argument(op) == IF op \in {"Union", "Intersection"} THEN op ELSE ""

\* One of the routines is called on the live parser.
Call(op) ==
    /\ Ready
    /\ MayCall(op)
    /\ Returned(Callee(op), Argument(op), RunOp(op, Live))

(***************************************************************************)
(* Specification of the speculation engine: any token sequence up to       *)
(* MaxLen over CoreTokens and the sample texts, any call order.            *)
(***************************************************************************)
CoreTokens == {T("A"), T("<"), T(">"), T("(")}

Toks(ks) == [i \in 1..Len(ks) |-> T(ks[i])]

CoreSamples ==
    { Toks(<<"A", "<", "B", ">", "(", "A", ")">>),
      Toks(<<"A", "<", "B", ">", "[">>),
      Toks(<<"A", "<<", "T", ">", "(", ")", "=>", "A", ">", "(">>),
      Toks(<<"infer", "A", "extends", "void", ".", "B", "?">>),
      Toks(<<"infer", "K", "extends", "A", ".", "?", "B", ":", "C">>),
      Toks(<<"<", "A", ".", ">", "(">>),
      Toks(<<"<", "A", ".", ">">>),
      Toks(<<"<", "[", "a", ":", "A", "]", ",", "B", ">">>),
      Toks(<<"get", "#", "a", "(", ")", ":", "A", ";">>),
      Toks(<<"readonly", "get", "a", "(", ")", ";">>),
      Toks(<<"(", "a", ":", "A", ")", "=>", "void", ".", "B">>),
      Toks(<<"{", "[", "K", "in", "A", "]", ":", "V", "}">>),
      Toks(<<"{", "new", "(", ")", ":", "A", ";", "[", "a", ":", "string", "]", ":", "A", "}">>) }

\* Tuple type texts.
TupleSamples ==
    { Toks(<<"[", "a", ":", "string", ",", "b", "?", ":", "number", ",",
             "c", ":", "boolean", "]">>),
      Toks(<<"[", "a", ":", "string", ",", "...", "rest", ":", "number", "[", "]", "]">>),
      Toks(<<"[", "A", "?", ",", "B", "]">>),
      Toks(<<"[", "A", "?", ",", "...", "B", ",", "C", "?", "]">>),
      Toks(<<"[", "A", ",", "B", "?", "]">>),
      Toks(<<"[", "...", "A", ",", "...", "B", ",", "C", "]">>),
      Toks(<<"[", "A", "?", ",", "...", "B", ",", "C", "]">>) }

\* Literal type texts: `type test = -1;` and `const t = -1;` of the tests
\* issue_708_1 and issue_708_2, and their neighbours.
LitSamples ==
    { <<T("type"), T("test"), T("="), T("-"), NumTok(1, "1"), T(";")>>,
      <<T("const"), T("t"), T("="), T("-"), NumTok(1, "1"), T(";")>>,
      <<T("-"), BigIntTok(10, "10n"), T("["), T("]")>>,
      <<T("-"), T("-"), NumTok(2, "2")>>,
      <<T("-"), T("A")>>,
      <<NumTok(0, "0x0"), T("|"), T("-"), NumTok(0, "0x0"), T("|"), T("-")>> }

\* Union and intersection texts.
UnionSamples ==
    { Toks(<<"A", "|", "B", "&", "C">>),
      Toks(<<"|", "A", "&", "B">>),
      Toks(<<"&", "A", "|", "B", "|", "C", ")">>),
      Toks(<<"A", "&", "B", "&", "C", "|", "D", "[", "]">>),
      Toks(<<"A", "|", "(", "B", "|", "C", ")", "&", "D">>),
      Toks(<<"|", "A", "|">>) }

\* Conditional type texts.
ConditionalText == <<"A", "extends", "B", "?", "C", "extends", "D", "?", "E", ":", "F", ":", "G">>

ConditionalSamples ==
    { Toks(ConditionalText),
      <<T("A"), NL("extends"), T("B"), T("?"), T("C"), T(":"), T("D")>>,
      Toks(<<"A", "extends", "B", "?", "C", ":", "D", "extends", "E", "?", "F", ":", "G">>),
      Toks(<<"A", "|", "B", "extends", "C", "?", "D", ":", "E", "extends">>),
      Toks(<<"A", "extends", "B", "C">>),
      Toks(<<"A", "extends", "B", "?", "C", ";">>) }

\* Mapped type texts: every form of the readonly modifier with every form
\* of the optional modifier, a sign without its modifier among them.
ReadonlyForms == {<<>>, <<"readonly">>, <<"+", "readonly">>, <<"-", "readonly">>, <<"+">>}

OptionalForms == {<<>>, <<"?">>, <<"+", "?">>, <<"-", "?">>, <<"-">>}

MappedSamples ==
    { Toks(<<"{">> \o ro \o <<"[", "K", "in", "A", "]">> \o opt \o <<":", "V", "}">>) :
        ro \in ReadonlyForms, opt \in OptionalForms }
    \cup { Toks(<<"{", "+", "readonly", "a", ":", "A", "}">>),
           Toks(<<"{", "readonly", "[", "K", ":", "A", "]", ":", "V", "}">>) }

\* The text of test issue_726, lines 2914-2939.
Issue726 ==
    <<T("type"), T("Test"), T("="), T("("), NL("string"), T("|"), T("number"), T(")"), T(";")>>

CaptureSamples ==
    {Issue726,
     <<T("type"), T("Test"), T("="), T("("), T("a"), T(":"), T("string"), T(")"), T("=>"),
       T("number"), T(";")>>}

DeclSamples ==
    {<<T("declare"), T("namespace"), T("A"), T("{"), T("type"), T("B"), T("="), T("C"),
       T("extends"), T("D"), T("?"), T("E"), T(":"), T("F"), T(";"), T("}")>>,
     <<T("declare"), T("namespace"), T("A"), T("."), T("B"), T("{"), T("declare"),
       T("const"), T("a"), T(";"), T("}")>>,
     <<T("declare"), T("function"), T("a"), T("("), T(")"), T(";")>>,
     <<T("declare"), T("class"), T("A"), T("{"), T("}")>>,
     <<T("declare"), T("const"), T("enum"), T("A"), T("{"), T("a"), T("="), NumTok(1, "1"),
       T(","), T("b"), T("c"), T("}")>>,
     <<T("declare"), T("global"), T("{"), T(";"), T("}")>>,
     <<T("declare"), T("module"), T("str"), T(";")>>,
     <<T("declare"), T("interface"), T("A"), T("extends"), T("B"), T("."), T("C"), T("{"),
       T("a"), T(":"), T("string"), T("}")>>,
     <<T("declare"), T("abstract"), T("class"), T("A"), T("{"), T("}")>>,
     <<T("declare"), T("namespace"), T("A"), T("{"), T("type"), T("B"), T("="), T("C"),
       T("extends"), T("D"), T("?"), T("E"), T(":"), T(";"), T("}")>>,
     <<T("declare"), T("var"), T("a"), T(";")>>,
     <<T("declare"), T("module"), T("A"), T("{"), T("enum"), T("B"), T("{"), T("}"), T("}")>>,
     <<T("declare"), T("enum")>>,
     <<T("namespace"), T("A"), T("{"), T("declare"), T("function"), T("a"), T("("), T("}")>>,
     <<T("declare"), T("+")>>}

\* Lists with a missing comma: an enum body and a tuple.
ListSamples ==
    {<<T("declare"), T("enum"), T("A"), T("{"), T("a"), T("="), NumTok(1, "1"), T("b"), T("}")>>,
     <<T("["), T("A"), T("B"), T("]")>>,
     <<T("["), T("A"), T(","), T("B"), T(","), T("]"), T("[")>>,
     <<T("["), T("["), T("]"), T(","), T("["), T("A"), T(","), T("]"), T("]")>>,
     <<T("["), T("A"), T(","), T(","), T("]")>>,
     <<T("type"), T("A"), T("<"), T(">"), T("="), T("B")>>,
     <<T("enum"), T("A"), T("{"), T("a"), T("="), NumTok(1, "1"), T("b"), T("c"), T("a"),
       T("}")>>}

\* Types nested three levels deep.
NestedSamples ==
    {<<T("("), T("("), T("("), T("A"), T(")"), T(")"), T(")")>>,
     <<T("["), T("("), T("A"), T("|"), T("B"), T(")"), T("]")>>}

\* Type operators: on an operator, on an infer type, on an array and on an
\* indexed access.
OperatorSamples ==
    { Toks(<<"keyof", "readonly", "A", "[", "]">>),
      Toks(<<"keyof", "infer", "A">>),
      Toks(<<"unique", "symbol">>),
      Toks(<<"readonly", "A", "[", "B", "]", "|", "C">>),
      Toks(<<"keyof">>) }

\* This-type predicates, with and without a line break before `is`.
PredicateSamples ==
    { <<T("this"), T("is"), T("A")>>,
      <<T("this"), NL("is"), T("A")>>,
      <<T("asserts"), T("this"), T("is"), T("A")>>,
      <<T("asserts"), T("this"), NL("is"), T("A")>>,
      <<T("asserts"), T("this")>> }

\* Texts starting with `(`: function types, and parenthesized types that
\* start like one.
FnSamples ==
    { Toks(<<"(", ")", "=>", "A">>),
      Toks(<<"(", "...", "a", ")", "=>", "A">>),
      Toks(<<"(", "this", ")", "=>", "A">>),
      Toks(<<"(", "A", ")", "[", "]">>),
      Toks(<<"(", "[", "a", "]", ",", "b", ")", "=>", "A">>),
      Toks(<<"(", "{", "}", "=", "A">>),
      Toks(<<"(", "[", "A", ",", "B", "]", ")">>),
      Toks(<<"(", "readonly", "a", ":", "A">>),
      Toks(<<"(", "a", "?", ":", "A", ")", "=>", "A">>) }

\* Members and declarations with the defects the parser recovers from, and
\* with a readonly method and a setter without a parameter.
DefectSamples ==
    { Toks(<<"{", "readonly", "a", "(", ")", ";", "}">>),
      Toks(<<"{", "set", "a", "(", ")", ";", "}">>),
      Toks(<<"{", "readonly", "get", "a", "(", ")", ";", "}">>),
      Toks(<<"interface", "string", "extends", "A", "extends", "B", "{", "#", "a", ":",
             "A", "}">>),
      Toks(<<"{", "readonly", "get", ":", "A", "}">>),
      <<T("enum"), T("A"), T("{"), NumTok(1, "1"), T("b"), T("}")>> }

Samples ==
    DefectSamples \cup FnSamples \cup PredicateSamples \cup OperatorSamples \cup NestedSamples \cup ListSamples \cup DeclSamples \cup CoreSamples \cup TupleSamples \cup LitSamples \cup UnionSamples \cup ConditionalSamples
        \cup MappedSamples \cup CaptureSamples

CoreContexts == {{}, {InType}, {InType, DisallowConditionalTypes}, {InType, IgnoreError}}

Stacks == {<<"BraceStmt">>, <<"BraceStmt", "ParenExpr">>}

Init == InitWith(SeqsUpTo(CoreTokens, MaxLen) \cup Samples, CoreContexts, Stacks)

Next ==
    \/ Bump
    \/ \E op \in CallOps : Call(op)
    \/ \E op \in TryOps : TryParseTs(op)
    \/ TryParseTsBool
    \/ \E op \in DOMAIN LookAheadOps : TsLookAhead(op)
    \/ ParseUnaryExpr

Spec == Init /\ [][Next]_vars

\* The nesting a depth guard of the type parser would allow at most.
MaxNesting == 2

(***************************************************************************)
(* Properties.                                                             *)
(***************************************************************************)
\* The history of the last call ends with the record of its own attempt.
LastAttempt == log[Len(log)]

IsAttempt(op) == op \in {"try_parse_ts", "try_parse_ts_bool", "ts_look_ahead"}

\* C1: an attempt of try_parse_ts or try_parse_ts_bool whose op ended in
\* no-match or in a hard failure, and every ts_look_ahead, leaves the parser
\* it was made on as it was: same cursor, same context flags, same
\* token-context stack.  This holds of the attempts the caller makes on the
\* live parser and of every attempt made inside a call.
C1_DiscardedAttemptLeavesParser ==
    /\ \A i \in DOMAIN log :
          (log[i].at = "attempt_end" /\ log[i].outcome # "commit")
              => log[i].to = log[i].from
    /\ (IsAttempt(last.op) /\ LastAttempt.outcome # "commit") => parser = last.from

\* A try_parse_ts whose op moved the cursor of its clone past the live one,
\* swapped the token contexts, then failed hard.
C1_Witness ==
    /\ last.op = "try_parse_ts"
    /\ LastAttempt.outcome = "failure"
    /\ \E i \in DOMAIN log :
          /\ log[i].at = "type_arg"
          /\ log[i].pos > parser.pos
          /\ log[i].tc # parser.tc

\* The history records of the last call that lie inside an attempt that was
\* discarded.
InDiscarded(j) ==
    \E i \in DOMAIN log :
        /\ log[i].at = "attempt_end"
        /\ log[i].outcome # "commit"
        /\ log[i].start <= j /\ j <= i

\* The defects the last call met on the path it kept.
CommittedDefects ==
    {j \in DOMAIN log : log[j].at = "emit_err" /\ ~InDiscarded(j)}

\* C2: an attempt that is discarded (no-match, hard failure, look-ahead) adds
\* no record to the diagnostics sink, at any depth of a parse; and a type
\* that is accepted with no defect on the path that was kept leaves the sink
\* as it was before the parse.
C2_DiscardedAttemptsAreSilent ==
    /\ \A i \in DOMAIN log :
          (log[i].at = "attempt_end" /\ log[i].outcome # "commit")
              => log[i].errs1 = log[i].errs0
    /\ (IsAttempt(last.op) /\ LastAttempt.outcome # "commit") => errors = last.errs0
    /\ (last.op \in {"parse_type", "parse_ts_type"} /\ last.ok /\ CommittedDefects = {})
          => errors = last.errs0

\* An accepted type in whose parse an attempt met a defect and was then
\* discarded: the sink holds the defect of the kept path and nothing of the
\* attempt's.
C2_Witness ==
    /\ last.op = "parse_type"
    /\ last.ok
    /\ \E i \in DOMAIN log :
          /\ log[i].at = "attempt_end"
          /\ log[i].outcome = "no_match"
          /\ \E j \in log[i].start .. i : log[j].at = "emit_err"
    /\ Len(errors) = Len(last.errs0) + Cardinality(CommittedDefects)

\* The emit_error calls made between the start and the end of attempt i that
\* are not inside an attempt nested in it that was discarded.
EmittedByAttempt(i) ==
    {j \in log[i].start .. i :
        /\ log[j].at = "emit_err"
        /\ ~\E k \in log[i].start .. i :
              /\ log[k].at = "attempt_end"
              /\ log[k].outcome # "commit"
              /\ log[k].start <= j /\ j <= k}

\* C3: when the op of try_parse_ts or try_parse_ts_bool succeeds and the
\* attempt is committed, every diagnostic the op emitted during the attempt
\* is in the sink after the call: the sink has grown by exactly the
\* diagnostics of the attempt, each of them recorded.  Stated for attempts
\* whose caller was itself recording (no enclosing attempt).
C3_CommittedAttemptKeepsDiagnostics ==
    \A i \in DOMAIN log :
        (/\ log[i].at = "attempt_end"
         /\ log[i].how \in {"try_parse_ts", "try_parse_ts_bool"}
         /\ IgnoreError \notin log[i].from.ctx
         /\ log[i].outcome = "commit")
        => /\ \A j \in EmittedByAttempt(i) : log[j].recorded
           /\ log[i].errs1 - log[i].errs0 = Cardinality(EmittedByAttempt(i))

\* A tuple element is optional when its type is an optional type (`T?`) or
\* its label carries the `?` (`b?: number`); it is a rest element when its
\* type is a rest type (`...T`) or its label is a rest pattern (`...r: T`).
IsOptionalElement(e) ==
    \/ e.ty.kind = "TsOptionalType"
    \/ (e.label.kind = "Ident" /\ e.label.optional)

IsRestElement(e) ==
    \/ e.ty.kind = "TsRestType"
    \/ e.label.kind = "RestPat"

\* C4: parse_ts_tuple_type fails whenever an optional element, marked by `?`
\* after its type or after its label, is followed later in the tuple by an
\* element that is neither optional nor rest: a tuple it returns has no such
\* pair of elements.
C4_NoRequiredAfterOptional ==
    (last.op = "parse_ts_tuple_type" /\ last.ok)
        => \A i, j \in DOMAIN last.v.elem_types :
              (i < j /\ IsOptionalElement(last.v.elem_types[i]))
                  => \/ IsOptionalElement(last.v.elem_types[j])
                     \/ IsRestElement(last.v.elem_types[j])

\* The literal type a `-` at position i folds into the literal after it.
FoldedLit(i) ==
    [kind |-> IF TokAt(i + 1).k = "num" THEN "Num" ELSE "BigInt",
     value |-> 0 - TokAt(i + 1).val,
     raw |-> "-" \o TokAt(i + 1).raw,
     lo |-> i + 1, hi |-> i + 2]

\* C5: in type position `-` followed by a numeric or bigint literal gives
\* one literal type whose value is the negated value and whose text is `-`
\* followed by the literal's text, with no unary-minus node; `-` followed
\* by anything else is a hard failure; a type alias over such a type holds
\* that literal type; in expression position the same text is a unary minus
\* over the unchanged literal.
C5_NegativeLiteralIsFolded ==
    /\ (last.op = "parse_ts_non_array_type" /\ TokAt(last.from.pos).k = "-")
          => IF TokAt(last.from.pos + 1).k \in {"num", "bigint"}
             THEN /\ last.ok
                  /\ last.v = [kind |-> "TsLitType", lo |-> last.from.pos,
                               hi |-> last.from.pos + 2, lit |-> FoldedLit(last.from.pos)]
                  /\ parser.pos = last.from.pos + 2
             ELSE ~last.ok
    /\ (/\ last.op = "parse_ts_type_alias_decl" /\ last.ok
        /\ TokAt(last.v.type_ann.lo).k = "-"
        /\ last.v.type_ann.hi = last.v.type_ann.lo + 2)
          => /\ last.v.type_ann.kind = "TsLitType"
             /\ last.v.type_ann.lit = FoldedLit(last.v.type_ann.lo)
    /\ (/\ last.op = "parse_unary_expr"
        /\ TokAt(last.from.pos).k = "-"
        /\ TokAt(last.from.pos + 1).k \in {"num", "bigint"})
          => /\ last.ok
             /\ last.v.kind = "UnaryExpr" /\ last.v.op = "-"
             /\ last.v.arg.kind = "Lit"
             /\ last.v.arg.lit.value = TokAt(last.from.pos + 1).val
             /\ last.v.arg.lit.raw = TokAt(last.from.pos + 1).raw

\* `type test = -1;` has been parsed: the alias holds the literal type with
\* value -1 and text "-1".
C5_Witness ==
    /\ last.op = "parse_ts_type_alias_decl"
    /\ last.ok
    /\ last.v.id.sym = "test"
    /\ last.v.type_ann.kind = "TsLitType"
    /\ last.v.type_ann.lit.kind = "Num"
    /\ last.v.type_ann.lit.value = -1
    /\ last.v.type_ann.lit.raw = "-1"

NodeKindOf(kind) == IF kind = "Union" THEN "TsUnionType" ELSE "TsIntersectionType"

\* A constituent that starts at position at: a constituent of a union may
\* have dropped a leading `&` of its own.
StartsAt(t, at, kind) ==
    \/ t.lo = at
    \/ (kind = "Union" /\ TokAt(at).k = "&" /\ t.lo = at + 1)

\* node holds, in source order, the constituents that the operator tokens
\* separate between position first and the position the parser stopped at.
Flat(node, kind, first, stop) ==
    LET ts == node.types
        n == Len(ts)
    IN /\ n >= 2
       /\ StartsAt(ts[1], first, kind)
       /\ \A i \in 1 .. n - 1 :
             /\ TokAt(ts[i].hi).k = operator_of(kind)
             /\ StartsAt(ts[i + 1], ts[i].hi + 1, kind)
       /\ ts[n].hi = stop
       /\ node.hi = stop
       /\ \A i \in 1 .. n : ts[i].kind # node.kind

\* C6: parse_ts_union_or_intersection_type returns, when operator tokens
\* follow the first constituent, one node holding all the constituents in
\* source order (one more than the operator tokens between them), none of
\* them a node of the same kind; when no operator follows the first
\* constituent it returns that constituent itself, also after a leading
\* operator; an intersection inside a union is one constituent of the
\* union, so `A | B & C` is a union whose second constituent is the
\* intersection of B and C.
C6_UnionAndIntersectionAreFlat ==
    (last.op = "parse_ts_union_or_intersection_type" /\ last.ok)
    => LET kind == last.arg
           op == operator_of(kind)
           start == last.from.pos
           first == IF ~last.from.cut /\ TokAt(start).k = op THEN start + 1 ELSE start
       IN /\ TokAt(parser.pos).k # op
          /\ IF last.v.kind = NodeKindOf(kind)
             THEN /\ last.v.lo = start
                  /\ Flat(last.v, kind, first, parser.pos)
                  /\ kind = "Union" =>
                        \A i \in DOMAIN last.v.types :
                            last.v.types[i].kind = "TsIntersectionType"
                            => Flat(last.v.types[i], "Intersection",
                                    IF TokAt(last.v.types[i].lo).k = "&"
                                    THEN last.v.types[i].lo + 1 ELSE last.v.types[i].lo,
                                    last.v.types[i].hi)
             ELSE /\ StartsAt(last.v, first, kind)
                  /\ last.v.hi = parser.pos
          /\ (/\ kind = "Union" /\ start + 4 <= Len(input)
              /\ [i \in 1 .. 5 |-> TokAt(start + i - 1).k] = <<"A", "|", "B", "&", "C">>)
             => /\ last.v.kind = "TsUnionType"
                /\ last.v.types[1].kind = "TsTypeRef"
                /\ last.v.types[1].hi = start + 1
                /\ last.v.types[2].kind = "TsIntersectionType"
                /\ Len(last.v.types[2].types) = 2
                /\ last.v.types[2].types[1].lo = start + 2
                /\ last.v.types[2].types[2].lo = start + 4
                /\ last.v.types[2].hi = start + 5

\* `A | B & C` has been parsed by parse_ts_union_type_or_higher.
C6_Witness ==
    /\ last.op = "parse_ts_union_or_intersection_type"
    /\ last.arg = "Union"
    /\ last.ok
    /\ last.from.pos = 1
    /\ [i \in 1 .. 5 |-> TokAt(i).k] = <<"A", "|", "B", "&", "C">>
    /\ Len(last.v.types) = 2
    /\ Len(last.v.types[2].types) = 2

\* The four parts of the conditional type c lie in the text one after the
\* other, separated by `extends` on the line of the check type, `?` and `:`,
\* and end where c ends.
ConditionalParts(c) ==
    /\ TokAt(c.check_type.hi).k = "extends"
    /\ ~TokAt(c.check_type.hi).nl
    /\ c.extends_type.lo = c.check_type.hi + 1
    /\ TokAt(c.extends_type.hi).k = "?"
    /\ c.true_type.lo = c.extends_type.hi + 1
    /\ TokAt(c.true_type.hi).k = ":"
    /\ c.false_type.lo = c.true_type.hi + 1
    /\ c.false_type.hi = c.hi

\* The text ConditionalText starts at position i.
ConditionalTextAt(i) ==
    /\ i + Len(ConditionalText) - 1 <= Len(input)
    /\ \A j \in 1 .. Len(ConditionalText) :
          TokAt(i + j - 1).k = ConditionalText[j] /\ ~TokAt(i + j - 1).nl

\* C7: parse_ts_type returns a conditional type exactly when the type it
\* parsed first is followed on the same line by `extends`; the conditional
\* has an extends type, `?`, a true branch, `:` and a false branch, and each
\* branch may itself be a conditional, so that
\* `A extends B ? C extends D ? E : F : G` has the conditional over C, D, E,
\* F as its true branch and G as its false branch.  Otherwise the first
\* type is returned and the parser stands right after it, `extends` not
\* consumed.
C7_ConditionalType ==
    /\ (last.op = "parse_ts_type" /\ last.ok /\ ~last.from.cut)
        => IF last.v.kind = "TsConditionalType"
           THEN /\ last.v.lo = last.from.pos
                /\ last.v.hi = parser.pos
                /\ ConditionalParts(last.v)
                /\ last.v.true_type.kind = "TsConditionalType"
                      => ConditionalParts(last.v.true_type)
                /\ last.v.false_type.kind = "TsConditionalType"
                      => ConditionalParts(last.v.false_type)
           ELSE /\ last.v.hi = parser.pos
                /\ (TokAt(parser.pos).k = "extends" => TokAt(parser.pos).nl)
    /\ (last.op = "parse_ts_type" /\ ~last.from.cut /\ ConditionalTextAt(last.from.pos))
        => /\ last.ok
           /\ last.v.kind = "TsConditionalType"
           /\ last.v.check_type.hi = last.from.pos + 1
           /\ last.v.extends_type.hi = last.from.pos + 3
           /\ last.v.true_type.kind = "TsConditionalType"
           /\ last.v.true_type.lo = last.from.pos + 4
           /\ last.v.true_type.hi = last.from.pos + 11
           /\ last.v.false_type.kind = "TsTypeRef"
           /\ last.v.false_type.lo = last.from.pos + 12
           /\ parser.pos = last.from.pos + 13

\* `A extends B ? C extends D ? E : F : G` has been parsed from its start.
C7_Witness ==
    /\ last.op = "parse_ts_type"
    /\ last.from.pos = 1
    /\ ConditionalTextAt(1)
    /\ last.ok
    /\ last.v.true_type.kind = "TsConditionalType"
    /\ last.v.false_type.type_name.sym = "G"

\* The tri-state the tokens at position i spell for the modifier word.
TriState(i, word) ==
    CASE TokAt(i).k = "+" -> "Plus"
      [] TokAt(i).k = "-" -> "Minus"
      [] TokAt(i).k = word -> "True"
      [] OTHER -> "None"

\* The position of the `]` that closes the key of the mapped type m.
KeyEnd(m) == IF m.name_type.kind = "None" THEN m.type_param.hi ELSE m.name_type.hi

\* C8: a mapped type returned by parse_ts_mapped_type has readonly = plus,
\* minus, true or absent as the tokens after `{` are `+readonly`,
\* `-readonly`, `readonly` or none of them, and optional = plus, minus, true
\* or absent as the tokens after `]` are `+?`, `-?`, `?` or none of them,
\* each modifier whatever the other is; a sign not followed by its modifier
\* is a hard failure.
C8_MappedTypeModifiers ==
    (last.op = "parse_ts_mapped_type")
    => LET i == last.from.pos + 1 IN
       /\ (TokAt(i).k \in {"+", "-"} /\ TokAt(i + 1).k # "readonly") => ~last.ok
       /\ last.ok =>
            /\ last.v.readonly = TriState(i, "readonly")
            /\ TokAt(KeyEnd(last.v)).k = "]"
            /\ last.v.optional = TriState(KeyEnd(last.v) + 1, "?")
            /\ TokAt(KeyEnd(last.v) + 1).k \in {"+", "-"}
                  => TokAt(KeyEnd(last.v) + 2).k = "?"

\* `{ -readonly [K in A]+?: V }` has been parsed: readonly is minus and
\* optional is plus.
C8_Witness ==
    /\ last.op = "parse_ts_mapped_type"
    /\ last.ok
    /\ TokAt(last.from.pos + 1).k = "-"
    /\ TokAt(KeyEnd(last.v) + 1).k = "+"
    /\ last.v.readonly = "Minus"
    /\ last.v.optional = "Plus"

(***************************************************************************)
(* C9: the captured token stream.                                          *)
(***************************************************************************)
\* The look-aheads of the last call that started at position i.
LookAheadsAt(i) ==
    {j \in 1..Len(log) : /\ log[j].at = "attempt_end"
                         /\ log[j].how = "ts_look_ahead"
                         /\ log[j].from.pos = i}

\* The type node t is the keyword type `word`.
IsKeywordType(t, word) == t.kind = "TsKeywordType" /\ t.kw = word

\* C9: the captured stream holds every token the parser has been handed
\* exactly once and in source order, it has none missing up to the cursor
\* whatever look-aheads and discarded attempts scanned, and after a complete
\* parse it is the whole input; the alias declaration of issue_726 leaves 9
\* captured tokens and a parenthesized union of the keyword types string
\* and number.
C9_TokensCapturedOnce ==
    /\ captured = [i \in 1..Len(captured) |-> i]
    /\ Len(captured) <= Len(input)
    /\ parser.pos <= Len(input) => Len(captured) >= parser.pos
    /\ parser.pos > Len(input) => Len(captured) = Len(input)
    /\ (input = Issue726 /\ last.op = "parse_ts_type_alias_decl")
          => /\ last.ok
             /\ parser.pos = 10
             /\ Len(captured) = 9
             /\ last.v.type_ann.kind = "TsParenthesizedType"
             /\ last.v.type_ann.type_ann.kind = "TsUnionType"
             /\ Len(last.v.type_ann.type_ann.types) = 2
             /\ IsKeywordType(last.v.type_ann.type_ann.types[1], "string")
             /\ IsKeywordType(last.v.type_ann.type_ann.types[2], "number")

\* The alias declaration of issue_726 has been parsed to its end: the `(`
\* set off a look-ahead that scanned past it, and 9 tokens are captured.
C9_Witness ==
    /\ input = Issue726
    /\ last.op = "parse_ts_type_alias_decl"
    /\ last.ok
    /\ \E j \in LookAheadsAt(4) : log[j].op = "is_ts_unambiguously_start_of_fn_type"
                                   /\ log[j].to.pos = 4
    /\ parser.pos > Len(input)
    /\ captured = <<1, 2, 3, 4, 5, 6, 7, 8, 9>>

(***************************************************************************)
(* C10: context flags.                                                     *)
(***************************************************************************)
\* The probes of the last call taken at the program point `at`.
ProbesAt(at) == {i \in 1..Len(log) : log[i].at = at}

\* C10: every call returns with the flags the parser had when it was
\* called, on success and on hard failure; inside the call the extends type
\* of a conditional is parsed with disallow-conditional-types set, its two
\* branches and the body of parse_ts_type with the flag cleared, the body
\* of a `declare` with in-declare set, a module block with top-level set
\* and an interface body with in-type set.
C10_ContextFlagsRestored ==
    /\ last.op # "init" => parser.ctx = last.from.ctx
    /\ \A i \in ProbesAt("extends_type") : DisallowConditionalTypes \in log[i].ctx
    /\ \A i \in ProbesAt("true_type") \cup ProbesAt("false_type")
                 \cup ProbesAt("parse_ts_type_body") :
            DisallowConditionalTypes \notin log[i].ctx
    /\ \A i \in ProbesAt("declare_body") : InDeclare \in log[i].ctx
    /\ \A i \in ProbesAt("block_body") : TopLevel \in log[i].ctx
    /\ \A i \in ProbesAt("interface_body") : InType \in log[i].ctx

\* `declare namespace A { type B = C extends D ? E : ; }` called with
\* disallow-conditional-types set has failed in the false branch of the
\* conditional: parse_ts_type was entered with the flag and cleared it, the
\* extends type had it again, and the parser is back to the flags of the
\* caller, without in-declare and top-level.
C10_Witness ==
    /\ last.op = "try_parse_ts_declare"
    /\ ~last.ok
    /\ last.from.ctx = {InType, DisallowConditionalTypes}
    /\ parser.ctx = {InType, DisallowConditionalTypes}
    /\ \E i \in ProbesAt("parse_ts_type") :
          /\ DisallowConditionalTypes \in log[i].ctx
          /\ {InDeclare, TopLevel} \subseteq log[i].ctx
          /\ i + 1 \in ProbesAt("parse_ts_type_body")
    /\ ProbesAt("extends_type") # {}
    /\ ProbesAt("false_type") # {}

(***************************************************************************)
(* C11: delimited lists.                                                   *)
(***************************************************************************)
\* The places of the history right after an element of a delimited list.
ListElements == {i \in 1..Len(log) : log[i].at = "list_element"}

\* The tokens that end a list of each kind.
ListEnd(kind) ==
    CASE kind \in {"EnumMembers", "TypeMembers"} -> {"}"}
      [] kind = "HeritageClauseElement" -> {"{", "implements", "extends"}
      [] kind = "TupleElementTypes" -> {"]"}
      [] kind = "TypeParametersOrArguments" -> {">"}

\* The record after i is the head of a further turn of the same list.
NextTurn(i) ==
    /\ i < Len(log)
    /\ log[i + 1].at = "list_step"
    /\ log[i + 1].kind = log[i].kind

\* The call the record i was made in has failed hard: an attempt that
\* encloses it ended in failure, or the call on the live parser did.
FailedHardAfter(i) ==
    \/ \E j \in (i + 1)..Len(log) : /\ log[j].at = "attempt_end"
                                    /\ log[j].outcome = "failure"
                                    /\ log[j].start <= i
    \/ ~last.ok /\ last.v.err = "Expected"

\* C11: after an element of a delimited list, a comma is consumed and the
\* loop takes a further turn; without a comma the list ends if the token
\* ends lists of its kind; otherwise an enum-members list records a missing
\* comma and takes a further turn at the same token, and a list of any other
\* kind fails hard with an expected-token error.
C11_DelimitedListSeparators ==
    \A i \in ListElements :
       LET e == log[i] IN
       CASE e.tok = "," ->
              /\ NextTurn(i)
              /\ log[i + 1].pos = IF e.st THEN e.pos ELSE e.pos + 1
              /\ ~log[i + 1].st
         [] e.tok # "," /\ e.tok \in ListEnd(e.kind) ->
              /\ ~NextTurn(i)
              /\ (i < Len(log) /\ log[i + 1].at = "emit_err")
                    => log[i + 1].err # "ExpectedComma"
         [] e.tok # "," /\ e.tok \notin ListEnd(e.kind) /\ e.kind = "EnumMembers" ->
              /\ i + 2 <= Len(log)
              /\ log[i + 1].at = "emit_err" /\ log[i + 1].err = "ExpectedComma"
              /\ log[i + 2] = [e EXCEPT !.at = "list_step"]
         [] OTHER ->
              /\ ~NextTurn(i)
              /\ i < Len(log) => log[i + 1].at = "attempt_end"
              /\ FailedHardAfter(i)

\* `declare enum A { a = 1 b }` has been parsed: after the first member
\* neither a comma nor `}` followed, the missing comma was recorded and the
\* second member was parsed from the same token.
C11_Witness ==
    /\ last.op = "try_parse_ts_declare"
    /\ last.ok /\ last.some
    /\ last.v.kind = "TsEnumDecl"
    /\ Len(last.v.members) = 2
    /\ errors = <<"ExpectedComma">>
    /\ \E i \in ListElements : log[i].kind = "EnumMembers" /\ log[i].tok = "b"

(***************************************************************************)
(* C12: nesting depth.                                                     *)
(***************************************************************************)
\* The types directly inside a type of one of the nesting levels:
\* parenthesized, array, union and intersection, conditional, tuple.
NestedTypes(t) ==
    CASE t.kind = "TsParenthesizedType" -> <<t.type_ann>>
      [] t.kind = "TsArrayType" -> <<t.elem_type>>
      [] t.kind \in {"TsUnionType", "TsIntersectionType"} -> t.types
      [] t.kind = "TsConditionalType" ->
           <<t.check_type, t.extends_type, t.true_type, t.false_type>>
      [] t.kind = "TsTupleType" -> [i \in 1..Len(t.elem_types) |-> t.elem_types[i].ty]
      [] OTHER -> <<>>

\* The number of nesting levels of a type.
RECURSIVE Nesting(_)
Nesting(t) ==
    LET inner == NestedTypes(t)
        depths == {Nesting(inner[i]) : i \in 1..Len(inner)}
    IN IF inner = <<>> THEN 0
       ELSE 1 + CHOOSE d \in depths : \A e \in depths : e <= d

\* C12: a type is parsed only as deep as the maximum depth; no type
\* returned by parse_type or parse_ts_type nests deeper, the parse of a
\* deeper one having failed with the type-nesting-too-deep diagnostic.
C12_NestingDepthIsGuarded ==
    (last.op \in {"parse_type", "parse_ts_type"} /\ last.ok)
    => Nesting(last.v) <= MaxNesting

\* The attempts of try_parse_ts and try_parse_ts_bool in the history of the
\* last call whose op ended as `how`.
EndedAttempts(outcome) ==
    {i \in DOMAIN log : /\ log[i].at = "attempt_end"
                        /\ log[i].how \in {"try_parse_ts", "try_parse_ts_bool"}
                        /\ log[i].outcome = outcome}

\* C13: a hard failure of the op of try_parse_ts or try_parse_ts_bool is
\* not handed to the caller: the caller of try_parse_ts gets the no-value
\* result and the caller of try_parse_ts_bool the false result, just as
\* after a no-match, on a parser that is as it was before the attempt.
C13_FailureReturnsAsNoMatch ==
    /\ \A i \in EndedAttempts("failure") \cup EndedAttempts("no_match") :
          /\ log[i].ret = IF log[i].how = "try_parse_ts" THEN "none" ELSE "false"
          /\ log[i].to = log[i].from
    /\ (last.op = "try_parse_ts" /\ LastAttempt.outcome \in {"failure", "no_match"})
          => (last.ok /\ ~last.some /\ last.v = NoneV /\ parser = last.from)
    /\ (last.op = "try_parse_ts_bool" /\ LastAttempt.outcome \in {"failure", "no_match"})
          => (last.ok /\ last.some /\ last.v = BoolV(FALSE) /\ parser = last.from)

\* A type that was accepted although a try_parse_ts inside its parse failed
\* hard: the caller of the attempt got no value and took its next
\* alternative.
C13_Witness ==
    /\ last.op = "parse_type"
    /\ last.ok
    /\ \E i \in EndedAttempts("failure") :
          /\ log[i].how = "try_parse_ts"
          /\ log[i].ret = "none"
          /\ i < Len(log)


\* The declaration each branch of try_parse_ts_declare makes, by the word
\* after `declare` and the one after it.
BranchDecl(word, after) ==
    CASE word = "function" -> "FnDecl"
      [] word = "class" -> "ClassDecl"
      [] word = "const" /\ after = "enum" -> "TsEnumDecl"
      [] word \in {"const", "var", "let"} -> "VarDecl"
      [] word = "global" -> "TsModuleDecl"
      [] word = "abstract" -> "ClassDecl"
      [] word = "enum" -> "TsEnumDecl"
      [] word = "interface" -> "TsInterfaceDecl"
      [] word \in {"module", "namespace"} -> "TsModuleDecl"
      [] word = "type" -> "TsTypeAliasDecl"
      [] OTHER -> "None"

\* The word after the `declare` the last call was made on.
DeclaredWord == TokAt(last.from.pos + 1).k

\* C14: try_parse_ts_declare takes the function, class, `const enum`,
\* var/let/const and `global` branches before the dispatch of parse_ts_decl
\* on the current word: a call that returns, on one of the words of the
\* first five branches, returns the declaration of that branch.  Whatever
\* branch made the declaration, it is marked `declare` and its span starts
\* at the `declare` keyword.  The body is parsed with in-declare set, and
\* the flag is as it was before the call once the call is over.
C14_DeclareBranches ==
    last.op = "try_parse_ts_declare" =>
        /\ (last.ok /\ DeclaredWord \in {"function", "class", "const", "var", "let", "global"})
              => last.some
        /\ (last.ok /\ last.some)
              => /\ last.v.kind = BranchDecl(DeclaredWord, TokAt(last.from.pos + 2).k)
                 /\ last.v.declare
                 /\ last.v.lo = last.from.pos
                 /\ (DeclaredWord = "const" /\ last.v.kind = "TsEnumDecl") => last.v.is_const
                 /\ last.v.kind = "TsModuleDecl" => (last.v.global <=> DeclaredWord = "global")
        /\ \A i \in DOMAIN log : "ctx" \in DOMAIN log[i] => InDeclare \in log[i].ctx
        /\ parser.ctx = last.from.ctx

\* `declare const enum A { ... }` on a parser without in-declare: the
\* const-enum branch was taken, not the var branch, and the enum starts at
\* `declare`.
C14_Witness ==
    /\ last.op = "try_parse_ts_declare"
    /\ last.ok /\ last.some
    /\ DeclaredWord = "const"
    /\ last.v.kind = "TsEnumDecl"
    /\ last.v.declare
    /\ last.v.lo = last.from.pos
    /\ ProbesAt("declare_body") # {}
    /\ InDeclare \notin parser.ctx


\* An optional child: none when the field holds no node.
Opt(x) == IF x.kind = "None" THEN <<>> ELSE <<x>>

\* The children of a node of the tree, each a node with a span.
Children(t) ==
    CASE t.kind = "TsQualifiedName" -> <<t.left, t.right>>
      [] t.kind = "TsTypeRef" -> <<t.type_name>> \o Opt(t.type_params)
      [] t.kind = "TsTypePredicate" -> <<t.param_name>> \o Opt(t.type_ann)
      [] t.kind \in {"TsTypeAnn", "TsTypeOperator", "TsParenthesizedType", "TsRestType",
                     "TsOptionalType"} -> <<t.type_ann>>
      [] t.kind = "TsConditionalType" ->
           <<t.check_type, t.extends_type, t.true_type, t.false_type>>
      [] t.kind = "TsInferType" -> <<t.type_param>>
      [] t.kind = "TsTypeParam" ->
           <<t.name>> \o Opt(t.constraint)
               \o (IF "default" \in DOMAIN t THEN Opt(t.default) ELSE <<>>)
      [] t.kind = "TsArrayType" -> <<t.elem_type>>
      [] t.kind = "TsIndexedAccessType" -> <<t.obj_type, t.index_type>>
      [] t.kind \in {"TsUnionType", "TsIntersectionType"} -> t.types
      [] t.kind = "TsTupleType" -> t.elem_types
      [] t.kind = "TsTupleElement" -> Opt(t.label) \o <<t.ty>>
      [] t.kind = "TsMappedType" ->
           <<t.type_param>> \o Opt(t.name_type) \o Opt(t.type_ann)
      [] t.kind \in {"TsTypeParamInstantiation", "TsTypeParamDecl"} -> t.params
      [] t.kind = "TsTypeQuery" -> <<t.expr_name>> \o Opt(t.type_args)
      [] t.kind \in {"TsFnType", "TsConstructorType", "TsCallSignatureDecl",
                     "TsConstructSignatureDecl"} ->
           Opt(t.type_params) \o t.params \o Opt(t.type_ann)
      [] t.kind = "TsTypeLit" -> t.members
      [] t.kind = "TsIndexSignature" -> t.params \o Opt(t.type_ann)
      [] t.kind \in {"TsPropertySignature", "TsMethodSignature", "TsGetterSignature"} ->
           Opt(t.type_ann)
      [] t.kind = "TsSetterSignature" -> <<t.param>>
      [] t.kind = "TsTypeAliasDecl" -> <<t.id>> \o Opt(t.type_params) \o <<t.type_ann>>
      [] t.kind \in {"Ident", "Rest"} /\ "type_ann" \in DOMAIN t -> Opt(t.type_ann)
      [] OTHER -> <<>>

\* Every node of the tree t holds the spans of its children.
RECURSIVE SpansNest(_)
SpansNest(t) ==
    \A i \in DOMAIN Children(t) :
        LET c == Children(t)[i] IN
        t.lo <= c.lo /\ c.hi <= t.hi /\ SpansNest(c)

\* C15: in every tree a routine of the type parser returns, the span of
\* each node contains the span of each of its children, the type parameter
\* of an infer type with its constraint and the array and indexed-access
\* types included.
C15_SpansContainChildren ==
    (last.ok /\ last.some /\ "lo" \in DOMAIN last.v) => SpansNest(last.v)


\* The attempts in the history of the last call.
AttemptEnds == {i \in DOMAIN log : log[i].at = "attempt_end"}

\* C16: the op of try_parse_ts, try_parse_ts_bool and ts_look_ahead runs
\* with ignore-errors set from its first step to its last, also after an
\* attempt nested in it was committed; once the call is over the flag of
\* the parser is what it was before the call, whatever the outcome.
C16_IgnoreErrorScope ==
    /\ \A i \in AttemptEnds :
          /\ \A j \in log[i].start .. i :
                /\ "ctx" \in DOMAIN log[j] => IgnoreError \in log[j].ctx
                /\ log[j].at = "attempt_end" => IgnoreError \in log[j].to.ctx
                                                 \/ j = i
          /\ (IgnoreError \in log[i].to.ctx) <=> (IgnoreError \in log[i].from.ctx)
    /\ IsAttempt(last.op)
          => ((IgnoreError \in parser.ctx) <=> (IgnoreError \in last.from.ctx))

\* A committed try_parse_ts on a parser that records diagnostics: inside it
\* a nested attempt was committed, a later step of the outer op still ran
\* with ignore-errors set, and the parser records again after the call.
C16_Witness ==
    /\ last.op = "try_parse_ts"
    /\ LastAttempt.outcome = "commit"
    /\ IgnoreError \notin last.from.ctx
    /\ IgnoreError \notin parser.ctx
    /\ \E i \in AttemptEnds : \E j \in DOMAIN log :
          /\ i < j /\ j < Len(log)
          /\ log[i].outcome = "commit"
          /\ "ctx" \in DOMAIN log[j]
          /\ IgnoreError \in log[j].ctx


\* The attempts of parse_ts_infer_type in the history of the last call
\* whose constraint parsed: the record before the end of such an attempt is
\* the place its constraint ended at.
ConstraintAttempts ==
    {i \in AttemptEnds : /\ log[i].op = "infer_constraint"
                         /\ i > 1
                         /\ log[i - 1].at = "constraint_end"}

\* A `?` follows the constraint of attempt i.
QuestionFollows(i) == TokAt(log[i - 1].pos).k = "?"

\* C17 as stated: the constraint attempt of parse_ts_infer_type is given
\* up, nothing consumed, when disallow-conditional-types is set and a `?`
\* follows the constraint, and the constraint is kept and consumed in the
\* other cases where it parses.
C17_AbandonedWhenForbidden ==
    \A i \in ConstraintAttempts :
        IF DisallowConditionalTypes \in log[i - 1].ctx /\ QuestionFollows(i)
        THEN log[i].outcome = "no_match" /\ log[i].to = log[i].from
        ELSE log[i].outcome = "commit" /\ log[i].to.pos = log[i - 1].pos

\* C17, amended: the constraint attempt of parse_ts_infer_type is given
\* up, nothing consumed, when disallow-conditional-types is clear and a `?`
\* follows the constraint; when the flag is set or no `?` follows, a
\* constraint that parses is kept and its tokens are consumed.
C17_AbandonedWhenAllowed ==
    \A i \in ConstraintAttempts :
        IF DisallowConditionalTypes \notin log[i - 1].ctx /\ QuestionFollows(i)
        THEN log[i].outcome = "no_match" /\ log[i].to = log[i].from
        ELSE log[i].outcome = "commit" /\ log[i].to.pos = log[i - 1].pos

\* An infer type whose constraint parsed up to a `?` with conditional types
\* allowed: the attempt was given up and the infer type has no constraint.
C17_Witness ==
    /\ last.ok /\ last.some
    /\ last.v.kind = "TsInferType"
    /\ last.v.type_param.constraint = NoneV
    /\ \E i \in ConstraintAttempts :
          /\ i = Len(log)
          /\ QuestionFollows(i)
          /\ DisallowConditionalTypes \notin log[i - 1].ctx
          /\ log[i].outcome = "no_match"
          /\ log[i - 1].pos > log[i].from.pos
          /\ parser.pos = log[i].from.pos


\* The tokens after the `{` at i are an optional `+` or `-`, an optional
\* `readonly`, then `[`, an identifier and `in`.
MappedPattern(i) ==
    LET a == IF TokAt(i + 1).k \in {"+", "-"} THEN i + 2 ELSE i + 1
        b == IF TokAt(a).k = "readonly" THEN a + 1 ELSE a
    IN /\ TokAt(b).k = "["
       /\ TokAt(b + 1).k \in IdentRef
       /\ TokAt(b + 2).k = "in"

\* The look-aheads for a mapped type in the history of the last call.
MappedLookAheads == {i \in AttemptEnds : log[i].op = "is_ts_start_of_mapped_type"}

\* C18: is_ts_start_of_mapped_type answers yes only on `{` [+|-]
\* [readonly] `[` identifier `in`; a `{` followed by anything else is parsed
\* as a type literal, never by the mapped-type parser; and the look-ahead
\* leaves the parser where it was.
C18_MappedTypeLookAhead ==
    /\ \A i \in MappedLookAheads :
          /\ log[i].to = log[i].from
          /\ log[i].ret = "value" => MappedPattern(log[i].from.pos)
    /\ (last.op = "ts_look_ahead" /\ last.arg = "is_ts_start_of_mapped_type")
          => /\ parser = last.from
             /\ (last.ok /\ last.v.b) => MappedPattern(last.from.pos)
    /\ (last.ok /\ last.some /\ last.v.kind = "TsMappedType") => MappedPattern(last.v.lo)


\* The nodes of a tree.
RECURSIVE Nodes(_)
Nodes(t) == {t} \cup UNION {Nodes(Children(t)[i]) : i \in DOMAIN Children(t)}

\* The type operators in the tree the last call returned.
OperatorNodes ==
    IF last.ok /\ last.some /\ "lo" \in DOMAIN last.v
    THEN {n \in Nodes(last.v) : n.kind = "TsTypeOperator"}
    ELSE {}

\* The parser the last call was made on, as a parser value.
Before ==
    [pos |-> last.from.pos, cut |-> last.from.cut, st |-> last.from.st,
     ctx |-> last.from.ctx, tc |-> last.from.tc,
     errs |-> last.errs0, log |-> <<>>, cap |-> <<>>]

\* C19 as stated: a type operator is one node tagged with its keyword, its
\* span starting at the keyword, and its operand is a type of the array /
\* indexed-access production, never a type operator or an infer type.
C19_OperandIsLowerProduction ==
    \A n \in OperatorNodes :
        /\ n.op = TokAt(n.lo).k
        /\ n.op \in TypeOperators
        /\ n.type_ann.kind \notin {"TsTypeOperator", "TsInferType"}

\* C19, amended: a type operator is one node tagged with its keyword, its
\* span starting at the keyword and ending with the operand, and its
\* operand is what parse_ts_type_operator_or_higher, the production of the
\* type operators itself, parses after the keyword: another type operator,
\* an infer type, or a type of the array / indexed-access production.
C19_OperandIsOperatorOrHigher ==
    /\ \A n \in OperatorNodes :
          /\ n.op = TokAt(n.lo).k
          /\ n.op \in TypeOperators
          /\ n.type_ann.lo = n.lo + 1
          /\ n.type_ann.hi = n.hi
    /\ last.op = "parse_ts_type_operator_or_higher"
          => LET operand == RunOp("parse_ts_type_operator_or_higher", bump(Before)) IN
             /\ last.ok = operand.ok
             /\ last.ok => /\ last.v = [kind |-> "TsTypeOperator", lo |-> last.from.pos,
                                        hi |-> operand.w.pos, op |-> TokAt(last.from.pos).k,
                                        type_ann |-> operand.v]
                           /\ parser.pos = operand.w.pos

\* `keyof readonly A[]`: the operand of keyof is the readonly operator,
\* whose operand is the array type.
C19_Witness ==
    /\ last.op = "parse_ts_type_operator_or_higher"
    /\ last.ok
    /\ last.v.kind = "TsTypeOperator"
    /\ last.v.op = "keyof"
    /\ last.v.lo = last.from.pos
    /\ last.v.type_ann.kind = "TsTypeOperator"
    /\ last.v.type_ann.op = "readonly"
    /\ last.v.type_ann.type_ann.kind = "TsArrayType"


\* The last call parsed a type starting at the word `this` (asserts false)
\* or at `asserts this` (asserts true), the word `is` next.
ThisIs(asserts) ==
    LET i == last.from.pos IN
    /\ last.op \in {"parse_type", "parse_ts_type"}
    /\ last.ok
    /\ IF asserts
       THEN TokAt(i).k = "asserts" /\ TokAt(i + 1).k = "this" /\ TokAt(i + 2).k = "is"
       ELSE TokAt(i).k = "this" /\ TokAt(i + 1).k = "is"

\* The word `is` after the `this` of the last call, and whether a line
\* break comes before it.
IsAt == IF TokAt(last.from.pos).k = "asserts" THEN last.from.pos + 2 ELSE last.from.pos + 1

\* C20: in `this is T` and in `asserts this is T` the word `is` is consumed,
\* and the predicate gets its type annotation, only when no line break
\* comes before `is`; after a line break `is` is left where it is, `this`
\* being a plain this-type and `asserts this` an asserts predicate without
\* a type annotation.
C20_IsNeedsNoLineBreak ==
    /\ (ThisIs(FALSE) /\ ~TokAt(IsAt).nl)
          => /\ last.v.kind = "TsTypePredicate"
             /\ ~last.v.asserts
             /\ last.v.type_ann # NoneV
             /\ parser.pos > IsAt
    /\ (ThisIs(FALSE) /\ TokAt(IsAt).nl)
          => /\ last.v.kind = "TsThisType"
             /\ parser.pos = IsAt
    /\ (ThisIs(TRUE) /\ ~TokAt(IsAt).nl)
          => /\ last.v.kind = "TsTypePredicate"
             /\ last.v.asserts
             /\ last.v.type_ann # NoneV
             /\ parser.pos > IsAt
    /\ (ThisIs(TRUE) /\ TokAt(IsAt).nl)
          => /\ last.v.kind = "TsTypePredicate"
             /\ last.v.asserts
             /\ last.v.type_ann = NoneV
             /\ parser.pos = IsAt


\* The place after one parameter start at a, 0 when there is none: a
\* modifier word that a name or a pattern follows on the same line is
\* passed over, then one word, or one pattern `[]`, `[x]`, `{}`, `{x}`.
ParameterStartEnd(a) ==
    LET m == IF /\ TokAt(a).k \in {"public", "protected", "private", "readonly"}
                /\ TokAt(a + 1).k \in IdentName \cup {"{", "["}
                /\ ~TokAt(a + 1).nl
             THEN a + 1 ELSE a
        n == IF TokAt(m + 1).k \in IdentRef THEN m + 2 ELSE m + 1
    IN IF TokAt(m).k \in IdentName THEN m + 1
       ELSE IF TokAt(m).k = "[" /\ TokAt(n).k = "]" THEN n + 1
       ELSE IF TokAt(m).k = "{" /\ TokAt(n).k = "}" THEN n + 1
       ELSE 0

\* The `(` at i starts a function type as far as the bounded scan can tell.
FnTypeStart(i) ==
    LET e == ParameterStartEnd(i + 1) IN
    \/ TokAt(i + 1).k \in {")", "..."}
    \/ /\ e # 0
       /\ \/ TokAt(e).k \in {":", ",", "?", "="}
          \/ TokAt(e).k = ")" /\ TokAt(e + 1).k = "=>"

\* The node a type starts with.
RECURSIVE Leading(_)
Leading(t) ==
    CASE t.kind = "TsConditionalType" -> Leading(t.check_type)
      [] t.kind \in {"TsUnionType", "TsIntersectionType"} -> Leading(t.types[1])
      [] t.kind = "TsArrayType" -> Leading(t.elem_type)
      [] t.kind = "TsIndexedAccessType" -> Leading(t.obj_type)
      [] OTHER -> t

\* The scans for a function type in the history of the last call.
FnLookAheads ==
    {i \in AttemptEnds : log[i].op = "is_ts_unambiguously_start_of_fn_type"}

RecoverableDefects ==
    {"TS1005", "ExpectedComma", "TS2452", "TS2427", "TS1172", "PrivateNameInInterface",
     "ReadOnlyMethod", "SetterParamRequired"}

\* C22: none of the defects listed as recoverable is a hard failure: no
\* call and no speculative attempt fails with one of them; each is a
\* diagnostic, and the routine that met it returns its node.
C22_RecoverableDefectsAreReported ==
    /\ ~last.ok => last.v.err \notin RecoverableDefects
    /\ \A i \in AttemptEnds : log[i].err \notin RecoverableDefects


\* The validations of tuples in the history.
Validations == {i \in 1..Len(log) : log[i].at = "tuple_validated"}

\* The places of the rest elements among the kinds of a tuple.
Rests(kinds) == {i \in 1..Len(kinds) : kinds[i] = "TsRestType"}

\* A required element comes after a `T?` element.
RequiredAfterOptional(kinds) ==
    \E i, j \in 1..Len(kinds) :
        /\ i < j
        /\ kinds[i] = "TsOptionalType"
        /\ kinds[j] \notin {"TsOptionalType", "TsRestType"}

ListElementEntries == {i \in 1..Len(log) : log[i].at \in {"type_arg", "type_param"}}

\* The places where the closing `>` of a type-argument list is expected.
Closings == {i \in 1..Len(log) : log[i].at = "type_args_close"}

\* C24: each element of a type-parameter or type-argument list is entered
\* with a token-context stack of one entry, the bottom entry of the stack
\* at entry; a call that parsed such elements returns, with success or with
\* a hard failure, with the stack it was entered with; and the closing `>`
\* of a type-argument list is expected with the saved stack in place.
C24_NoContextScope ==
    /\ \A i \in ListElementEntries : log[i].tc = <<last.from.tc[1]>>
    /\ \A i \in Closings : log[i].tc = log[i].saved
    /\ last.op # "init" => parser.tc = last.from.tc

\* A list entered with a stack of two entries parsed an element with one
\* entry, then failed hard and left the two entries.
C24_Witness ==
    /\ last.op \notin {"", "try_parse_ts", "try_parse_ts_bool", "ts_look_ahead"}
    /\ ~last.ok
    /\ Len(last.from.tc) = 2
    /\ ListElementEntries # {}
    /\ \E i \in Closings : Len(log[i].saved) = 2
    /\ parser.tc = last.from.tc


\* The indexed-access types in the tree the last call returned.
IndexedAccessNodes ==
    IF last.ok /\ last.some /\ "lo" \in DOMAIN last.v
    THEN {n \in Nodes(last.v) : n.kind = "TsIndexedAccessType"}
    ELSE {}

\* C25: no indexed-access type is flagged readonly: a type that starts with
\* `readonly` is a type operator, and the flag stays false.
C25_IndexedAccessIsNeverReadonly ==
    \A n \in IndexedAccessNodes : ~n.readonly

\* A `readonly` operator was returned whose operand is an indexed-access
\* type.
C25_Witness ==
    \E o \in OperatorNodes :
        /\ o.op = "readonly"
        /\ o.type_ann \in IndexedAccessNodes


\* The look-aheads in the history whose op failed hard.
LookAheadFailures ==
    {i \in AttemptEnds : log[i].how = "ts_look_ahead" /\ log[i].outcome = "failure"}

\* The attempts a record of the history lies in.
Enclosing(i) == {k \in AttemptEnds : k > i /\ log[k].start <= i}

\* The innermost of them.
Innermost(i) == CHOOSE k \in Enclosing(i) : \A m \in Enclosing(i) : k <= m

\* C26: a hard failure of the op of ts_look_ahead is returned as a failure,
\* on the parser the look-ahead was made on, and the production that asked
\* fails with it: the call itself when no attempt lies around the
\* look-ahead, with the cursor where the look-ahead started, and otherwise
\* the op of the innermost attempt around it.
C26_LookAheadFailurePropagates ==
    \A i \in LookAheadFailures :
        /\ log[i].ret = "failure"
        /\ log[i].to = log[i].from
        /\ IF Enclosing(i) = {}
           THEN /\ ~last.ok
                /\ last.v.err = log[i].err
                /\ parser.pos = log[i].from.pos
                /\ parser.cut = log[i].from.cut
           ELSE /\ log[Innermost(i)].outcome = "failure"
                /\ log[Innermost(i)].err = log[i].err

\* A production called on the live parser failed with the failure of a
\* look-ahead it made after consuming tokens.
C26_Witness ==
    /\ ~IsAttempt(last.op)
    /\ ~last.ok
    /\ \E i \in LookAheadFailures :
          /\ Enclosing(i) = {}
          /\ log[i].from.pos > last.from.pos
          /\ parser.pos = log[i].from.pos


\* The accessor attempts of parse_ts_type_member made after `readonly` was
\* consumed.
ReadonlyAccessorAttempts ==
    {i \in AttemptEnds : log[i].how = "try_parse_ts" /\ log[i].op = "accessor_readonly"}

\* The members with a key in the tree the last call returned.
Members ==
    IF last.ok /\ last.some /\ "lo" \in DOMAIN last.v
    THEN {n \in Nodes(last.v) :
            n.kind \in {"TsPropertySignature", "TsMethodSignature", "TsGetterSignature",
                        "TsSetterSignature"}}
    ELSE {}

\* C27: the accessor attempt made after `readonly` was consumed fails with
\* the getter-setter-cannot-be-readonly error and is discarded: the caller
\* gets no value on an unmoved parser, the error is neither recorded nor
\* returned by any call, and the member that comes of it is a readonly
\* property signature whose key is the token the attempt started at.
C27_ReadonlyAccessorIsDiscarded ==
    /\ \A i \in ReadonlyAccessorAttempts :
          /\ log[i].outcome = "failure"
          /\ log[i].err = "GetterSetterCannotBeReadonly"
          /\ log[i].ret = "none"
          /\ log[i].to = log[i].from
          /\ \A n \in Members :
                n.key.lo = log[i].from.pos =>
                    /\ n.kind = "TsPropertySignature"
                    /\ n.readonly
                    /\ n.lo < n.key.lo
    /\ \A j \in 1..Len(errors) : errors[j] # "GetterSetterCannotBeReadonly"
    /\ \A j \in 1..Len(log) :
          log[j].at = "emit_err" => log[j].err # "GetterSetterCannotBeReadonly"
    /\ ~last.ok => last.v.err # "GetterSetterCannotBeReadonly"

\* `readonly get : A` in a type literal: the accessor attempt failed and the
\* member returned is the readonly property `get`.
C27_Witness ==
    \E i \in ReadonlyAccessorAttempts :
        \E n \in Members :
            /\ n.key.lo = log[i].from.pos
            /\ n.key.sym = "get"
            /\ n.readonly


\* The heads of the turns of the tuple-element lists in the history.
TupleSteps ==
    {i \in 1..Len(log) : log[i].at = "list_step" /\ log[i].kind = "TupleElementTypes"}

\* An element of a tuple is parsed from the record i on: its parser starts
\* with the attempt to read a label, at the token of the record.
ElementStarts(i) ==
    /\ i < Len(log)
    /\ log[i + 1].at = "attempt"
    /\ log[i + 1].pos = log[i].pos

\* The records after the elements of the tuple t, outside the attempts that
\* were discarded.
ElementsOf(t) ==
    {i \in ListElements :
        /\ log[i].kind = "TupleElementTypes"
        /\ ~InDiscarded(i)
        /\ \E k \in 1..Len(t.elem_types) :
              /\ log[i].pos = t.elem_types[k].hi
              /\ \A j \in ListElements :
                    (log[j].kind = "TupleElementTypes" /\ log[j].pos = log[i].pos) => j <= i}

Turns == {i \in 1..Len(log) : log[i].at = "list_turn"}

\* The reports of a repeated `extends` in the history.
RepeatedExtends == {i \in 1..Len(log) : log[i].at = "emit_err" /\ log[i].err = "TS1172"}

\* The head of the turn a delimited list takes after the element of the
\* record i, if it takes one: the next record, or the one after the report
\* of a missing comma; 0 when the loop is over.
NextHead(i) ==
    IF NextTurn(i) THEN i + 1
    ELSE IF /\ i + 2 <= Len(log)
            /\ log[i + 1].at = "emit_err" /\ log[i + 1].err = "ExpectedComma"
            /\ log[i + 2].at = "list_step" /\ log[i + 2].kind = log[i].kind
         THEN i + 2
         ELSE 0

\* C30: the list loops make progress.  The element of every turn of
\* parse_ts_list and parse_ts_delimited_list that goes on ends past the
\* token the turn started at; the next turn of a delimited list starts where
\* the element ended or one comma later, also after the missing comma of an
\* enum-members list, which consumes nothing, and after the comma an enum
\* member put in the place of an unexpected token; so a loop takes no more
\* turns than there are tokens.  The skipping after a repeated `extends`
\* stops at `{` or at the end of the input.
C30_ListLoopsMakeProgress ==
    /\ \A i \in Turns :
          /\ log[i].pos > log[i].head
          /\ log[i].pos <= Len(input) + 1
          /\ ~log[i].head_st
    /\ \A i \in ListElements :
          /\ log[i - 1].at = "list_turn"
          /\ log[i - 1].pos = log[i].pos
          /\ NextHead(i) # 0 =>
                /\ log[NextHead(i)].pos >= log[i].pos
                /\ log[NextHead(i)].pos <= log[i].pos + 1
                /\ log[NextHead(i)].pos = log[i].pos => (log[i].tok # "," \/ log[i].st)
    /\ \A i \in RepeatedExtends :
          /\ log[i + 1].at = "interface_body"
          /\ TokAt(log[i + 1].pos).k \in {"{", "EOF"}

\* An enum-members list went on after a missing comma without consuming a
\* token, and after a comma put in the place of a token; each of its turns
\* ended past its start, and the enum was returned.
C30_Witness ==
    /\ last.ok /\ last.some
    /\ \E i \in ListElements :
          /\ log[i].kind = "EnumMembers"
          /\ log[i].tok \notin {",", "}"}
          /\ NextHead(i) = i + 2
          /\ log[i + 2].pos = log[i].pos
    /\ \E i \in ListElements :
          /\ log[i].kind = "EnumMembers"
          /\ log[i].st
          /\ NextHead(i) = i + 1
    /\ Cardinality({i \in Turns : log[i].kind = "EnumMembers"}) >= 3


====
